---- MODULE Spec2Model ----
(***************************************************************************)
(* Model of the Schulmanager scraping service: the SchulmanagerService     *)
(* session (browser, page, isLoggedIn, loginPromise), its asynchronous     *)
(* operations init / login / performLogin / close and the fetch            *)
(* operations, each split at its await points, and the week-anchor         *)
(* computation getMondayOfWeek on JavaScript Date values.                  *)
(***************************************************************************)
EXTENDS Integers, Sequences, FiniteSets, TLC

\* ------------------------------------------------------------------ bounds
\* Number of concurrent callers (asynchronous tasks calling the service).
NumProcs == 2
\* Total number of service calls made in one behaviour.
MaxCalls == 3
\* Number of consecutive days, starting at FirstDay, anchor dates are drawn from.
NumDays == 16

Procs == 1..NumProcs
\* Every launch and every login attempt belongs to a call, so MaxCalls ids
\* name the browsers and the attempts that are referenced at any one time.
BrowserIds == 1..MaxCalls
AttemptIds == 1..MaxCalls

\* ------------------------------------------------------- JavaScript Date
\* Days are counted from 1970-01-01 (a Thursday); an instant is a number of
\* hours since 1970-01-01T00:00Z; a calendar date is <<year, month, day>>.

DaysFromCivil(y, m, d) ==
    LET yy  == IF m <= 2 THEN y - 1 ELSE y
        era == yy \div 400
        yoe == yy - era * 400
        mp  == IF m > 2 THEN m - 3 ELSE m + 9
        doy == (153 * mp + 2) \div 5 + d - 1
        doe == yoe * 365 + yoe \div 4 - yoe \div 100 + doy
    IN  era * 146097 + doe - 719468

CivilFromDays(z) ==
    LET zz  == z + 719468
        era == zz \div 146097
        doe == zz - era * 146097
        yoe == (doe - doe \div 1460 + doe \div 36524 - doe \div 146096) \div 365
        doy == doe - (365 * yoe + yoe \div 4 - yoe \div 100)
        mp  == (5 * doy + 2) \div 153
        d   == doy - (153 * mp + 2) \div 5 + 1
        m   == IF mp < 10 THEN mp + 3 ELSE mp - 9
        y   == yoe + era * 400 + (IF m <= 2 THEN 1 ELSE 0)
    IN  <<y, m, d>>

\* First day anchor dates are drawn from: 2024-12-23 (a Monday), so that the
\* range covers the turn of the year.
FirstDay == DaysFromCivil(2024, 12, 23)

\* Date.prototype.getDay of a day number: 0 = Sunday .. 6 = Saturday.
WeekdayOf(days) == (days + 4) % 7

\* The local wall clock of an instant in a zone `tz` hours east of UTC.
LocalHours(t, tz) == t + tz

\* date.getDay(): weekday of the local calendar day.
GetDay(t, tz) == WeekdayOf(LocalHours(t, tz) \div 24)

\* date.getDate(): day of the month of the local calendar day.
GetDate(t, tz) == CivilFromDays(LocalHours(t, tz) \div 24)[3]

\* date.setDate(n): the local calendar day becomes day n of the current
\* local month (n <= 0 or n past the month's end rolls over), the local time
\* of day is kept; returns the new instant.
SetDate(t, tz, n) ==
    LET loc == LocalHours(t, tz)
        civ == CivilFromDays(loc \div 24)
        day == DaysFromCivil(civ[1], civ[2], 1) + n - 1
    IN  day * 24 + (loc % 24) - tz

\* date.toISOString().split('T')[0]: the UTC calendar date of the instant.
ToISODate(t) == CivilFromDays(t \div 24)

\* new Date('YYYY-MM-DD'): midnight UTC of that calendar date.
ParseISODate(s) == DaysFromCivil(s[1], s[2], s[3]) * 24

\* The adjustment of getMondayOfWeek for a weekday index.
MondayAdjust(day) == IF day = 0 THEN -6 ELSE 1

getMondayOfWeek(t, tz) ==
    LET day  == GetDay(t, tz)
        diff == GetDate(t, tz) - day + MondayAdjust(day)
    IN  ToISODate(SetDate(t, tz, diff))

\* ------------------------------------------------------------------ URLs
\* A URL is its text as a sequence of pieces plus the ?start= date it carries.
NoDate == <<>>
LoginUrl == [path |-> <<"https://login.", "schulmanager-online.de/">>, start |-> NoDate]
DashboardUrl == [path |-> <<"https://login.", "schulmanager-online.de/", "#/", "dashboard">>,
                 start |-> NoDate]
BlankUrl == [path |-> <<"about:blank">>, start |-> NoDate]
ScheduleUrl(monday) ==
    [path |-> <<"https://login.", "schulmanager-online.de/", "#/",
                "modules/schedules/view//?start=">>,
     start |-> monday]

\* The text currentUrl is searched for.
AuthenticatedPattern == <<"schulmanager-online.de/", "#/">>

\* String.prototype.includes on the pieces of a URL.
Includes(text, pat) ==
    \E i \in 0..(Len(text) - Len(pat)) :
        \A j \in 1..Len(pat) : text[i + j] = pat[j]

\* The process's clock (new Date()) during the modelled calls: Wednesday
\* 2025-01-01, 10:00 UTC.
Now == (FirstDay + 9) * 24 + 10

\* ----------------------------------------------------------------- state
VARIABLES
    browser,      \* this.browser: 0 (null) or the id of a launched browser
    page,         \* this.page: 0 (null) or the id of the browser owning the page
    isLoggedIn,   \* this.isLoggedIn
    loginPromise, \* this.loginPromise: 0 (null) or the id of a login attempt
    live,         \* browsers launched and not closed
    pageUrl,      \* the URL each browser's page shows
    attemptRes,   \* state of each login attempt's promise
    calls,        \* service calls made so far
    pc,           \* the await each caller is suspended at ("idle": no call)
    op,           \* the operation each caller runs ("none": no call)
    loc,          \* the locals of each running call
    last,         \* the call that returned last and what it returned
    tz,           \* the process's time zone, in hours east of UTC
    mPc,          \* position of the getMondayOfWeek evaluation
    mDate,        \* the anchor instant given to getMondayOfWeek
    mResult,      \* getMondayOfWeek(mDate)
    mAgain,       \* getMondayOfWeek(new Date(mResult))
    cache,        \* NodeCache data: key -> entry [v, t] or NoEntry
    clock,        \* Date.now(), in seconds
    cPc,          \* the getOrSet calls suspended at await fn()
    cLast,        \* the cache call that returned last
    fnCalls,      \* number of times a getOrSet has invoked its fn
    nPc,          \* position in the normalisation pipeline
    nCells,       \* the cells of one day's column of the schedule table
    nDay,         \* the raw slots the extractor pushes for that day
    nLessons,     \* getTimetable's lessons for that day
    nSubs,        \* getSubstitutions' result
    nCancelled,   \* getCancelledClasses' result
    tPc,          \* position of the time derivation
    tHour,        \* the hour index given to the time derivation
    tTimes,       \* the times derived for tHour
    tNext,        \* the times derived for tHour + 1
    kPc,          \* position of the classification of one lesson marker
    kMarker,      \* the .lesson-cell element that is classified
    kSlot,        \* the slot the extractor builds for it
    wPc,          \* position of the week extraction and day selection
    wTable,       \* the rendered .calendar-table: header texts and rows of cells
    wDate,        \* the date getTimetable is called with (0: not called)
    wSchedule,    \* the WeekSchedule the extractor returns
    wLessons,     \* the Lessons getTimetable returns
    hPc,          \* the await the request handler is suspended at
    hReq,         \* the request in progress or answered last: handler and date
    hRes,         \* the response to it
    hLog,         \* what the handler has called for this request
    hStore,       \* the cache entries the handlers have stored and not lost
    hCount,       \* requests received so far
    hNow          \* new Date() at the handlers, in hours

sessVars == <<browser, page, isLoggedIn, loginPromise>>
envVars == <<live, pageUrl>>
procVars == <<calls, pc, op, loc, last>>
mondayVars == <<tz, mPc, mDate, mResult, mAgain>>
cacheVars == <<cache, clock, cPc, cLast, fnCalls>>
normVars == <<nPc, nCells, nDay, nLessons, nSubs, nCancelled>>
timeVars == <<tPc, tHour, tTimes, tNext>>
classVars == <<kPc, kMarker, kSlot>>
weekVars == <<wPc, wTable, wDate, wSchedule, wLessons>>
\* The extraction of a whole table, seen from the other parts of the model.
tableVars == <<classVars, weekVars>>
handlerVars == <<hPc, hReq, hRes, hLog, hStore, hCount, hNow>>
\* What the session's operations never touch.
sideVars == <<mondayVars, cacheVars, normVars, timeVars, tableVars, handlerVars>>
vars == <<sessVars, envVars, attemptRes, procVars, sideVars>>

Credentials == {"good", "bad"}
\* Anchor dates of the fetch calls: today and the same time a week later.
FetchDates == {Now, Now + 7 * 24}
FetchOps == {"getWeekSchedule", "getTimetable", "getSubstitutions", "getCancelledClasses"}
\* The awaits of performLogin (with the init it calls).
LoginPcs == {"launch", "newPage", "initDone", "goto", "wait1", "email1", "email2",
             "email3", "typeEmail", "pwd", "typePwd", "submit", "click", "wait2"}

\* The locals of a call:
\*   cred        the credentials passed to login
\*   date        the date passed to a fetch (an instant)
\*   att         the login attempt the call awaits (0: none)
\*   opPage      the browser/page the pending browser operation was issued on
\*   elem        the page the held element handle belongs to
\*   navTimeout  whether waitForNavigation timed out
\*   threw       whether performLogin ended in its catch block
\*   navigated   whether the fetch's page.goto has resolved
\*   settled     whether the fetch's waitForTimeout(5000) has resolved
\*   table       whether the fetch's waitForSelector has resolved with the table
NoLocals == [cred |-> "none", date |-> 0, att |-> 0, opPage |-> 0, elem |-> 0,
             navTimeout |-> FALSE, threw |-> FALSE,
             navigated |-> FALSE, settled |-> FALSE, table |-> FALSE]

\* The record of a returned call:
\*   op    the operation
\*   ret   what it returned: "true"/"false" (login), "void" (init, close),
\*         "ok" (a fetch), "NotLoggedIn" or "error" (what it threw)
\*   week  the ?start= date of the schedule a fetch extracted
\*   date  the date a fetch that suspended had been called with (0: none)
\*   how   "now": it returned without suspending; "joined": it awaited a login
\*         attempt another call had started; "awaited": it awaited its own work
NoCall == [op |-> "none", ret |-> "none", week |-> NoDate, date |-> 0, how |-> "now"]

\* ---- the cache (CacheService over NodeCache)
\* A cache key is its text as a sequence of pieces, "<category>:<scope>:<date>".
CacheKeys == {<<"timetable:", "default:", "2025-01-01">>,
              <<"substitutions:", "default:", "2025-01-01">>}
\* The prefixes delByPrefix is called with.
Prefixes == {<<"timetable:">>, <<"substitutions:">>, <<"default:">>, <<>>}
\* The values given to set, and the values the compute functions return.
CacheValues == {"v1", "v2"}
FnValues == {"v2", "v3"}
\* The tasks that call getOrSet: two run concurrently at most.
CacheCallers == {1, 2}
\* JavaScript's undefined.
Undefined == "undefined"
\* config.cache.ttl, in seconds.
TimetableTtl == 21600
SubstitutionsTtl == 1800
\* The ttl argument: omitted (0), or the configured value for substitutions.
TtlArgs == {0, SubstitutionsTtl}
\* No entry under a key.
NoEntry == [v |-> Undefined, t |-> -1]
\* The record of a returned cache call: the operation, its key (or prefix),
\* value and ttl arguments, what it returned ("threw" when fn rejected), the
\* number of keys it deleted, the clock at its return, and whether it invoked fn.
NoCacheCall == [op |-> "none", key |-> <<>>, val |-> Undefined, ttl |-> 0,
                ret |-> Undefined, count |-> 0, at |-> 0, computed |-> FALSE]
\* A getOrSet call that is not running.
NoCompute == [pc |-> "idle", key |-> <<>>, ttl |-> 0]

\* The cache after construction (lines 12-18).
InitCache ==
    /\ cache = [k \in CacheKeys |-> NoEntry]
    /\ clock = 0
    /\ cPc = [p \in CacheCallers |-> NoCompute]
    /\ cLast = NoCacheCall
    /\ fnCalls = 0

\* ---- the normalisation pipeline and the time derivation, not running
NoTimes == [startHour |-> 0, startMinute |-> 0, endHour |-> 0, endMinute |-> 0,
            startTime |-> <<>>, endTime |-> <<>>]
NormOff ==
    /\ nPc = "off"
    /\ nCells = <<>>
    /\ nDay = <<>>
    /\ nLessons = <<>>
    /\ nSubs = <<>>
    /\ nCancelled = <<>>
TimeOff ==
    /\ tPc = "off"
    /\ tHour = 0
    /\ tTimes = NoTimes
    /\ tNext = NoTimes
\* An empty schedule object, as the extractor creates it (line 203). A schedule
\* is the sequence of its entries [key, slots], in insertion order.
NoSchedule == <<>>
NoTable == [headers |-> <<>>, rows |-> <<>>]
TableOff ==
    /\ kPc = "off"
    /\ kMarker = <<>>
    /\ kSlot = <<>>
    /\ wPc = "off"
    /\ wTable = NoTable
    /\ wDate = 0
    /\ wSchedule = NoSchedule
    /\ wLessons = <<>>
\* No request, no response, nothing called.
NoRequest == [handler |-> "none", date |-> <<>>]
NoResponse == [status |-> 0, success |-> FALSE, code |-> <<>>, week |-> <<>>]
NoEffects == [gets |-> 0, sets |-> 0, logins |-> 0, fetches |-> <<>>]
HandlerOff ==
    /\ hPc = "off"
    /\ hReq = NoRequest
    /\ hRes = NoResponse
    /\ hLog = NoEffects
    /\ hStore = {}
    /\ hCount = 0
    /\ hNow = 0
MondayOff ==
    /\ tz = 0
    /\ mPc = "off"
    /\ mDate = 0
    /\ mResult = NoDate
    /\ mAgain = NoDate

InitSession ==
    /\ browser = 0
    /\ page = 0
    /\ isLoggedIn = FALSE
    /\ loginPromise = 0
    /\ live = {}
    /\ pageUrl = [b \in BrowserIds |-> BlankUrl]
    /\ attemptRes = [a \in AttemptIds |-> "none"]
    /\ calls = 0
    /\ pc = [p \in Procs |-> "idle"]
    /\ op = [p \in Procs |-> "none"]
    /\ loc = [p \in Procs |-> NoLocals]
    /\ last = NoCall

Init ==
    /\ InitSession
    /\ MondayOff
    /\ InitCache
    /\ NormOff
    /\ TimeOff
    /\ TableOff
    /\ HandlerOff

\* ------------------------------------------------------------- helpers
Set(f, x, v) == [f EXCEPT ![x] = v]

\* Ids are names only: a new browser or attempt takes the least id that
\* nothing refers to any more.
BrowserInUse(b) ==
    \/ b \in live
    \/ b \in {browser, page}
    \/ \E p \in Procs : b \in {loc[p].opPage, loc[p].elem}
NewBrowser == CHOOSE b \in BrowserIds :
    ~BrowserInUse(b) /\ \A c \in 1..(b - 1) : BrowserInUse(c)
NewAttempt == CHOOSE a \in AttemptIds :
    attemptRes[a] = "none" /\ \A c \in 1..(a - 1) : attemptRes[c] # "none"
\* The attempts' promises once call p has returned and this.loginPromise is lp:
\* a promise nothing refers to is forgotten.
Forget(p, lp) ==
    [a \in AttemptIds |->
        IF a # lp /\ \A q \in Procs \ {p} : loc[q].att # a THEN "none" ELSE attemptRes[a]]

\* A promise-returning browser operation on browser/page b: it can fail for
\* any reason (timeout, network), and fails when b has been closed.
Outcomes(b) == IF b \in live THEN {"ok", "fail"} ELSE {"fail"}
\* page.waitForTimeout is a timer: it may also elapse on a closed page.
WaitOutcomes(b) == {"ok", "fail"}
\* page.$(selector): an element, null, or an exception.
LookupOutcomes(b) == IF b \in live THEN {"found", "null", "fail"} ELSE {"fail"}
\* Where the portal leaves the page after the submit click.
Landing(c) == IF c = "good" THEN {DashboardUrl, LoginUrl} ELSE {LoginUrl}

\* A login that does not look at isLoggedIn.
AlreadyLoggedInIgnored == FALSE
\* login, line 61: if (this.isLoggedIn)
AlreadyLoggedIn == isLoggedIn
\* A login that does not look at loginPromise.
LoginInFlightIgnored == FALSE
\* login, line 66: if (this.loginPromise)
LoginInFlight == loginPromise # 0
\* init, line 42: if (!this.browser)
BrowserMissing == browser = 0
\* performLogin, lines 156-157: the catch block's state and result.
CatchLoggedIn == FALSE
\* A catch block that rethrows: the attempt's promise rejects.
CatchRethrown == "rejected"
CatchResult == "false"
\* A URL check that looks for the host alone.
UrlCheckHostOnly(url) == Includes(url.path, <<"schulmanager-online.de/">>)
\* performLogin, lines 144-145: currentUrl.includes('schulmanager-online.de/#/')
UrlCheck(url) == Includes(url.path, AuthenticatedPattern)
\* performLogin, lines 133-138: whether Promise.all resolves, given the
\* outcome of the click and of waitForNavigation (whose rejection is caught).
SubmitResolves(clickOk, navOk) == clickOk
\* What `await promise` gives for a settled promise: its value, or a throw.
AwaitResult(r) == IF r = "rejected" THEN "error" ELSE r
\* A joiner that answers from the session state instead of the promise.
JoinResultFromState(a) == IF isLoggedIn THEN "true" ELSE "false"
\* login, line 67: return await this.loginPromise
JoinResult(a) == AwaitResult(attemptRes[a])
\* A login that clears the marker on success only.
PromiseKeptOnFailure(r) == IF r = "true" THEN 0 ELSE loginPromise
\* login, lines 76-78: finally { this.loginPromise = null }
PromiseAfterFinally(r) == 0
\* A guard that checks the page alone.
WeekGuardPageOnly == page = 0
\* getWeekSchedule, line 175: if (!this.isLoggedIn || !this.page)
WeekGuardFails == ~isLoggedIn \/ page = 0
\* getTimetable / getSubstitutions / getCancelledClasses, lines 303, 375, 429.
DateGuardFails == ~isLoggedIn
\* The by-date fetchers call getTimetable and getWeekSchedule synchronously,
\* so all guards are evaluated in the step of the call.
FetchRefused(o) ==
    IF o = "getWeekSchedule" THEN WeekGuardFails ELSE DateGuardFails \/ WeekGuardFails
\* getTimetable, line 311, calls getWeekSchedule() without a date: the anchor
\* is new Date(); getWeekSchedule(date), line 183, uses date.
Anchor(p) == IF op[p] = "getWeekSchedule" THEN loc[p].date ELSE Now

\* A fetch that goes from the navigation straight to the element wait.
WsNextNoSettle(step) ==
    CASE step = "wsGoto" -> "wsSelector"
      [] step = "wsSettle" -> "wsSelector"
      [] step = "wsSelector" -> "wsEval"
\* getWeekSchedule, lines 190-200: the await that follows each await.
WsNext(step) ==
    CASE step = "wsGoto" -> "wsSettle"
      [] step = "wsSettle" -> "wsSelector"
      [] step = "wsSelector" -> "wsEval"
\* An element wait whose rejection is caught, as the navigation wait of the
\* login is.
SelectorWaitSwallowed(o) == FALSE
\* getWeekSchedule, line 196: a rejected waitForSelector (the table did not
\* appear within 10 s) leaves the try block.
SelectorWaitFatal(o) == o # "ok"

\* A catch block that starts the login sequence again.
CatchRetries == "initDone"
\* performLogin, lines 154-158: the catch block returns false; the initiating
\* login resumes at its await.
CatchNext == "loginAwait"
\* A catch block that marks the session as logged out before it rethrows.
RethrowLoggedOut == FALSE
\* getWeekSchedule, lines 293-296 (and init, which has no catch): the error
\* is logged and rethrown, this.isLoggedIn is left as it is.
RethrowLoggedIn == isLoggedIn

\* Caller p makes a call. Callers are interchangeable: a call is given to the
\* first caller that runs none.
Begin(p) ==
    /\ pc[p] = "idle"
    /\ \A q \in 1..(p - 1) : pc[q] # "idle"
    /\ calls < MaxCalls
    /\ calls' = calls + 1

\* The call o of p goes on to its first await, with locals l.
Start(p, o, next, l) ==
    /\ pc' = Set(pc, p, next)
    /\ op' = Set(op, p, o)
    /\ loc' = Set(loc, p, l)
    /\ UNCHANGED last

\* The call o of p ends: it returns v (or throws v), and w when it returns a
\* schedule.
Done(p, o, v, w) ==
    /\ pc' = Set(pc, p, "idle")
    /\ op' = Set(op, p, "none")
    /\ loc' = Set(loc, p, NoLocals)
    /\ last' = [op |-> o, ret |-> v, week |-> w, date |-> loc[p].date,
                how |-> CASE pc[p] = "idle" -> "now" [] pc[p] = "join" -> "joined"
                          [] OTHER -> "awaited"]

\* The caller's code goes on to its next await, with locals l.
Go(p, next, l) ==
    /\ pc' = Set(pc, p, next)
    /\ loc' = Set(loc, p, l)
    /\ UNCHANGED <<op, last, isLoggedIn, attemptRes>>

\* The caller's code throws: performLogin's catch (lines 154-158) absorbs it,
\* every other operation rejects.
Raise(p) ==
    IF op[p] = "login"
    THEN /\ isLoggedIn' = CatchLoggedIn
         /\ attemptRes' = Set(attemptRes, loc[p].att, CatchResult)
         /\ pc' = Set(pc, p, CatchNext)
         /\ loc' = Set(loc, p, [loc[p] EXCEPT !.threw = TRUE])
         /\ UNCHANGED <<op, last>>
    ELSE /\ Done(p, op[p], "error", NoDate)
         /\ isLoggedIn' = RethrowLoggedIn
         /\ UNCHANGED attemptRes

\* The caller's code goes on to an operation on this.page (a TypeError when
\* this.page is null).
GoOnPage(p, next, l) ==
    IF page = 0 THEN Raise(p) ELSE Go(p, next, [l EXCEPT !.opPage = page])

\* ------------------------------------------------------- init and login
\* init() called directly, up to its first await (lines 41-43).
init(p) ==
    /\ Begin(p)
    /\ UNCHANGED <<sessVars, envVars, attemptRes, sideVars>>
    /\ IF BrowserMissing
       THEN Start(p, "init", "launch", NoLocals)
       ELSE Done(p, "init", "void", NoDate)

\* login(username, password) up to its first await (lines 59-74); a new
\* attempt runs performLogin and init synchronously up to puppeteer.launch.
login(p, c) ==
    /\ Begin(p)
    /\ UNCHANGED <<browser, page, isLoggedIn, envVars, sideVars>>
    /\ IF AlreadyLoggedIn
       THEN /\ Done(p, "login", "true", NoDate)
            /\ UNCHANGED <<loginPromise, attemptRes>>
       ELSE IF LoginInFlight
       THEN /\ Start(p, "login", "join", [NoLocals EXCEPT !.cred = c, !.att = loginPromise])
            /\ UNCHANGED <<loginPromise, attemptRes>>
       ELSE /\ attemptRes' = Set(attemptRes, NewAttempt, "pending")
            /\ loginPromise' = NewAttempt
            /\ Start(p, "login", IF BrowserMissing THEN "launch" ELSE "initDone",
                     [NoLocals EXCEPT !.cred = c, !.att = NewAttempt])

\* puppeteer.launch settles (line 43); on success this.browser is assigned and
\* this.browser.newPage() is called (line 52).
LaunchDone(p) ==
    /\ pc[p] = "launch"
    /\ UNCHANGED <<page, loginPromise, calls, sideVars>>
    /\ \E ok \in BOOLEAN :
        IF ok
        THEN /\ live' = live \cup {NewBrowser}
             /\ pageUrl' = Set(pageUrl, NewBrowser, BlankUrl)
             /\ browser' = NewBrowser
             /\ Go(p, "newPage", [loc[p] EXCEPT !.opPage = NewBrowser])
        ELSE /\ Raise(p)
             /\ UNCHANGED <<live, pageUrl, browser>>

\* browser.newPage settles (line 52); on success this.page is assigned and
\* init returns.
NewPageDone(p) ==
    /\ pc[p] = "newPage"
    /\ UNCHANGED <<browser, loginPromise, envVars, calls, sideVars>>
    /\ \E o \in Outcomes(loc[p].opPage) :
        IF o = "ok"
        THEN /\ page' = loc[p].opPage
             /\ IF op[p] = "init"
                THEN Done(p, "init", "void", NoDate) /\ UNCHANGED <<isLoggedIn, attemptRes>>
                ELSE Go(p, "initDone", loc[p])
        ELSE Raise(p) /\ UNCHANGED page

\* performLogin resumes after await this.init() (lines 86-98): the page check
\* and page.goto(login page).
AfterInit(p) ==
    /\ pc[p] = "initDone"
    /\ UNCHANGED <<browser, page, loginPromise, envVars, calls, sideVars>>
    /\ GoOnPage(p, "goto", loc[p])

\* page.goto(login page) settles (lines 95-101).
GotoDone(p) ==
    /\ pc[p] = "goto"
    /\ UNCHANGED <<browser, page, loginPromise, live, calls, sideVars>>
    /\ \E o \in Outcomes(loc[p].opPage) :
        IF o = "ok"
        THEN /\ pageUrl' = Set(pageUrl, loc[p].opPage, LoginUrl)
             /\ GoOnPage(p, "wait1", loc[p])
        ELSE Raise(p) /\ UNCHANGED pageUrl

\* page.waitForTimeout(2000) settles (lines 101-104); the first email
\* selector is looked up.
Wait1Done(p) ==
    /\ pc[p] = "wait1"
    /\ UNCHANGED <<browser, page, loginPromise, envVars, calls, sideVars>>
    /\ \E o \in WaitOutcomes(loc[p].opPage) :
        IF o = "ok" THEN GoOnPage(p, "email1", loc[p]) ELSE Raise(p)

\* One of the three email selector lookups settles (lines 104-117): the first
\* match is typed into, a miss tries the next selector, three misses throw.
EmailLookupDone(p) ==
    /\ pc[p] \in {"email1", "email2", "email3"}
    /\ UNCHANGED <<browser, page, loginPromise, envVars, calls, sideVars>>
    /\ \E r \in LookupOutcomes(loc[p].opPage) :
        CASE r = "found" ->
                Go(p, "typeEmail", [loc[p] EXCEPT !.elem = loc[p].opPage])
          [] r = "null" /\ pc[p] # "email3" ->
                GoOnPage(p, IF pc[p] = "email1" THEN "email2" ELSE "email3", loc[p])
          [] OTHER -> Raise(p)

\* emailInput.type settles (lines 117-120); the password field is looked up.
TypeEmailDone(p) ==
    /\ pc[p] = "typeEmail"
    /\ UNCHANGED <<browser, page, loginPromise, envVars, calls, sideVars>>
    /\ \E o \in Outcomes(loc[p].elem) :
        IF o = "ok" THEN GoOnPage(p, "pwd", loc[p]) ELSE Raise(p)

\* The password lookup settles (lines 120-124).
PwdLookupDone(p) ==
    /\ pc[p] = "pwd"
    /\ UNCHANGED <<browser, page, loginPromise, envVars, calls, sideVars>>
    /\ \E r \in LookupOutcomes(loc[p].opPage) :
        IF r = "found"
        THEN Go(p, "typePwd", [loc[p] EXCEPT !.elem = loc[p].opPage])
        ELSE Raise(p)

\* passwordInput.type settles (lines 124-127); the submit button is looked up.
TypePwdDone(p) ==
    /\ pc[p] = "typePwd"
    /\ UNCHANGED <<browser, page, loginPromise, envVars, calls, sideVars>>
    /\ \E o \in Outcomes(loc[p].elem) :
        IF o = "ok" THEN GoOnPage(p, "submit", loc[p]) ELSE Raise(p)

\* The submit lookup settles (lines 127-138); the button is clicked and
\* this.page.waitForNavigation is started.
SubmitLookupDone(p) ==
    /\ pc[p] = "submit"
    /\ UNCHANGED <<browser, page, loginPromise, envVars, calls, sideVars>>
    /\ \E r \in LookupOutcomes(loc[p].opPage) :
        IF r = "found"
        THEN GoOnPage(p, "click", [loc[p] EXCEPT !.elem = loc[p].opPage])
        ELSE Raise(p)

\* Promise.all([click, waitForNavigation.catch]) settles (lines 133-141): a
\* navigation timeout is swallowed, a failed click throws.
ClickDone(p) ==
    /\ pc[p] = "click"
    /\ UNCHANGED <<browser, page, loginPromise, live, calls, sideVars>>
    /\ \E o \in Outcomes(loc[p].elem), navOk \in BOOLEAN, land \in Landing(loc[p].cred) :
        /\ pageUrl' = IF o = "ok" THEN Set(pageUrl, loc[p].elem, land) ELSE pageUrl
        /\ IF SubmitResolves(o = "ok", navOk)
           THEN GoOnPage(p, "wait2", [loc[p] EXCEPT !.navTimeout = ~navOk])
           ELSE Raise(p)

\* page.waitForTimeout(3000) settles (lines 141-153): the URL check decides
\* isLoggedIn and the attempt's result.
Wait2Done(p) ==
    /\ pc[p] = "wait2"
    /\ UNCHANGED <<browser, page, loginPromise, envVars, calls, sideVars>>
    /\ \E o \in WaitOutcomes(loc[p].opPage) :
        IF o = "ok" /\ page # 0
        THEN /\ isLoggedIn' = UrlCheck(pageUrl[page])
             /\ attemptRes' = Set(attemptRes, loc[p].att,
                                  IF UrlCheck(pageUrl[page]) THEN "true" ELSE "false")
             /\ pc' = Set(pc, p, "loginAwait")
             /\ UNCHANGED <<op, loc, last>>
        ELSE Raise(p)

\* The initiating login resumes after await this.loginPromise (lines 74-78):
\* the finally block runs and the result is returned.
LoginReturn(p) ==
    /\ pc[p] = "loginAwait"
    /\ attemptRes[loc[p].att] # "pending"
    /\ loginPromise' = PromiseAfterFinally(attemptRes[loc[p].att])
    /\ Done(p, "login", AwaitResult(attemptRes[loc[p].att]), NoDate)
    /\ attemptRes' = Forget(p, loginPromise')
    /\ UNCHANGED <<browser, page, isLoggedIn, envVars, calls, sideVars>>

\* A joined login resumes after await this.loginPromise (line 67).
JoinReturn(p) ==
    /\ pc[p] = "join"
    /\ attemptRes[loc[p].att] # "pending"
    /\ Done(p, "login", JoinResult(loc[p].att), NoDate)
    /\ attemptRes' = Forget(p, loginPromise)
    /\ UNCHANGED <<sessVars, envVars, calls, sideVars>>

\* ------------------------------------------------------------------ close
\* close, lines 456-458: the fields after browser.close() has resolved.
ClosedBrowser == 0
ClosedPage == 0
\* A close that leaves isLoggedIn as it is.
ClosedLoggedInKept == isLoggedIn
ClosedLoggedIn == FALSE

\* close() up to its await (lines 453-455).
close(p) ==
    /\ Begin(p)
    /\ UNCHANGED <<sessVars, envVars, attemptRes, sideVars>>
    /\ IF BrowserMissing
       THEN Done(p, "close", "void", NoDate)
       ELSE Start(p, "close", "closing", [NoLocals EXCEPT !.opPage = browser])

\* browser.close() settles (lines 455-458). Closing a live browser succeeds;
\* closing one that is already closed may resolve or reject.
CloseDone(p) ==
    /\ pc[p] = "closing"
    /\ UNCHANGED <<loginPromise, attemptRes, calls, sideVars>>
    /\ \E ok \in (IF loc[p].opPage \in live THEN {TRUE} ELSE BOOLEAN) :
        /\ live' = live \ {loc[p].opPage}
        /\ pageUrl' = Set(pageUrl, loc[p].opPage, BlankUrl)
        /\ IF ok
           THEN /\ browser' = ClosedBrowser
                /\ page' = ClosedPage
                /\ isLoggedIn' = ClosedLoggedIn
                /\ Done(p, "close", "void", NoDate)
           ELSE /\ Done(p, "close", "error", NoDate)
                /\ UNCHANGED <<browser, page, isLoggedIn>>

\* ---------------------------------------------------------------- fetches
\* getWeekSchedule / getTimetable / getSubstitutions / getCancelledClasses up
\* to the first await (lines 174-190, 302-311, 374-383, 428-437): the guards,
\* getMondayOfWeek and page.goto(scheduleUrl).
fetch(p, o, d) ==
    /\ Begin(p)
    /\ UNCHANGED <<sessVars, envVars, attemptRes, sideVars>>
    /\ IF FetchRefused(o)
       THEN Done(p, o, "NotLoggedIn", NoDate)
       ELSE Start(p, o, "wsGoto", [NoLocals EXCEPT !.date = d, !.opPage = page])

\* page.goto(scheduleUrl) settles (lines 190-193).
WsGotoDone(p) ==
    /\ pc[p] = "wsGoto"
    /\ UNCHANGED <<browser, page, loginPromise, live, calls, sideVars>>
    /\ \E o \in Outcomes(loc[p].opPage) :
        IF o = "ok"
        THEN /\ pageUrl' = Set(pageUrl, loc[p].opPage,
                               ScheduleUrl(getMondayOfWeek(Anchor(p), tz)))
             /\ GoOnPage(p, WsNext("wsGoto"), [loc[p] EXCEPT !.navigated = TRUE])
        ELSE Raise(p) /\ UNCHANGED pageUrl

\* page.waitForTimeout(5000) settles (lines 193-196).
WsSettleDone(p) ==
    /\ pc[p] = "wsSettle"
    /\ UNCHANGED <<browser, page, loginPromise, envVars, calls, sideVars>>
    /\ \E o \in WaitOutcomes(loc[p].opPage) :
        IF o = "ok"
        THEN GoOnPage(p, WsNext("wsSettle"), [loc[p] EXCEPT !.settled = TRUE])
        ELSE Raise(p)

\* page.waitForSelector('.calendar-table') settles (lines 196-200).
WsSelectorDone(p) ==
    /\ pc[p] = "wsSelector"
    /\ UNCHANGED <<browser, page, loginPromise, envVars, calls, sideVars>>
    /\ \E o \in Outcomes(loc[p].opPage) :
        IF SelectorWaitFatal(o)
        THEN Raise(p)
        ELSE GoOnPage(p, WsNext("wsSelector"), [loc[p] EXCEPT !.table = (o = "ok")])

\* A fetch that returns the schedule of the week it asked for.
ExtractedOwnWeek(p) == getMondayOfWeek(Anchor(p), tz)
\* page.evaluate, lines 200-289: the extractor reads the document the page
\* shows when it runs.
Extracted(p) == pageUrl[loc[p].opPage].start

\* page.evaluate(extractor) settles (lines 200-292): the schedule shown by the
\* page is returned.
WsEvalDone(p) ==
    /\ pc[p] = "wsEval"
    /\ UNCHANGED <<sessVars, envVars, attemptRes, calls, sideVars>>
    /\ \E o \in Outcomes(loc[p].opPage) :
        IF o = "ok"
        THEN Done(p, op[p], "ok", Extracted(p))
        ELSE Done(p, op[p], "error", NoDate)

\* ------------------------------------------------------------ the session
Next ==
    \E p \in Procs :
        \/ init(p)
        \/ \E c \in Credentials : login(p, c)
        \/ LaunchDone(p)
        \/ NewPageDone(p)
        \/ AfterInit(p)
        \/ GotoDone(p)
        \/ Wait1Done(p)
        \/ EmailLookupDone(p)
        \/ TypeEmailDone(p)
        \/ PwdLookupDone(p)
        \/ TypePwdDone(p)
        \/ SubmitLookupDone(p)
        \/ ClickDone(p)
        \/ Wait2Done(p)
        \/ LoginReturn(p)
        \/ JoinReturn(p)
        \/ close(p)
        \/ CloseDone(p)
        \/ \E o \in FetchOps, d \in FetchDates : fetch(p, o, d)
        \/ WsGotoDone(p)
        \/ WsSettleDone(p)
        \/ WsSelectorDone(p)
        \/ WsEvalDone(p)

Spec == Init /\ [][Next]_vars

\* ------------------------------------------- logins under fair scheduling
\* The browser operation or promise that call p awaits settles.
Settles(p) ==
    \/ LaunchDone(p)
    \/ NewPageDone(p)
    \/ AfterInit(p)
    \/ GotoDone(p)
    \/ Wait1Done(p)
    \/ EmailLookupDone(p)
    \/ TypeEmailDone(p)
    \/ PwdLookupDone(p)
    \/ TypePwdDone(p)
    \/ SubmitLookupDone(p)
    \/ ClickDone(p)
    \/ Wait2Done(p)
    \/ LoginReturn(p)
    \/ JoinReturn(p)
    \/ CloseDone(p)
\* login() and close() calls in any interleaving; a login runs init itself.
NextLogin ==
    \E p \in Procs :
        \/ \E c \in Credentials : login(p, c)
        \/ close(p)
        \/ Settles(p)
\* Every browser operation eventually returns or fails, and the event loop
\* runs every continuation that is ready.
SpecLive == Init /\ [][NextLogin]_vars /\ \A p \in Procs : WF_vars(Settles(p))

\* ------------------------------------------------ getMondayOfWeek alone
\* Time zones of the process, in hours east of UTC.
TimeZones == {-5, 0, 1, 2}
\* Hours of the day (UTC) of the anchor instants.
HoursOfDay == {0, 1, 12, 22, 23}
AnchorInstants == {(FirstDay + k) * 24 + h : k \in 0..(NumDays - 1), h \in HoursOfDay}

InitMonday ==
    /\ InitSession
    /\ tz \in TimeZones
    /\ mDate \in AnchorInstants
    /\ mPc = "start"
    /\ mResult = NoDate
    /\ mAgain = NoDate
    /\ InitCache
    /\ NormOff
    /\ TimeOff
    /\ TableOff
    /\ HandlerOff

\* getMondayOfWeek(new Date(targetDate)), line 184.
ApplyMonday ==
    /\ mPc = "start"
    /\ mResult' = getMondayOfWeek(mDate, tz)
    /\ mPc' = "applied"
    /\ UNCHANGED <<sessVars, envVars, attemptRes, procVars, tz, mDate, mAgain,
                   cacheVars, normVars, timeVars, tableVars, handlerVars>>

\* getMondayOfWeek(new Date(monday)) on the date string just produced.
ApplyAgain ==
    /\ mPc = "applied"
    /\ mAgain' = getMondayOfWeek(ParseISODate(mResult), tz)
    /\ mPc' = "again"
    /\ UNCHANGED <<sessVars, envVars, attemptRes, procVars, tz, mDate, mResult,
                   cacheVars, normVars, timeVars, tableVars, handlerVars>>

NextMonday == ApplyMonday \/ ApplyAgain

SpecMonday == InitMonday /\ [][NextMonday]_vars

\* ------------------------------------------------------------- the cache
\* Number of cache calls, and of clock advances, in one behaviour.
MaxCacheCalls == 2
MaxTicks == 2
\* The clock advances by half an hour or by six hours.
TickSizes == {SubstitutionsTtl, TimetableTtl}
\* The number of advances that make up a clock value.
TicksIn(t) == (t \div TimetableTtl) + ((t % TimetableTtl) \div SubstitutionsTtl)

\* What the cache's operations never touch.
cacheFrame == <<sessVars, envVars, attemptRes, pc, op, loc, last,
                mondayVars, normVars, timeVars, tableVars, handlerVars>>

\* NodeCache._check: an entry whose expiry time lies before now has expired;
\* an expiry time of 0 means it never does.
Expired(e) == e.t # 0 /\ e.t < clock
\* data[key] holds an entry and _check accepts it.
LiveEntry(k) == cache[k] # NoEntry /\ ~Expired(cache[k])
\* NodeCache.get: the live entry's value, or undefined.
Lookup(k) == IF LiveEntry(k) THEN cache[k].v ELSE Undefined
\* NodeCache._check deletes the expired entry it meets (deleteOnExpire).
AfterCheck(k) ==
    IF cache[k] # NoEntry /\ Expired(cache[k]) THEN Set(cache, k, NoEntry) ELSE cache
\* NodeCache._wrap: the entry stored for a value and a ttl in seconds.
Wrap(v, ttl) == [v |-> v, t |-> IF ttl = 0 THEN 0 ELSE clock + ttl]
\* A set that passes its ttl argument on as it is.
EffectiveTtlAsGiven(ttl) == ttl
\* set, line 24: ttl || config.cache.ttl.timetable
EffectiveTtl(ttl) == IF ttl # 0 THEN ttl ELSE TimetableTtl
\* set, line 24: this.cache.set(key, value, ...)
StoredBy(k, v, ttl) == Set(cache, k, Wrap(v, EffectiveTtl(ttl)))
\* A match of the prefix anywhere in the key.
StartsWithAnywhere(key, pre) == Includes(key, pre)
\* String.prototype.startsWith on the pieces of a key.
StartsWith(key, pre) == Len(pre) <= Len(key) /\ SubSeq(key, 1, Len(pre)) = pre
\* delByPrefix, line 52: this.cache.keys().filter(key => key.startsWith(prefix))
KeysWithPrefix(pre) == {k \in CacheKeys : cache[k] # NoEntry /\ StartsWith(k, pre)}
\* A getOrSet that never takes the cached value.
CacheHitNever(cached) == FALSE
\* getOrSet, line 81: cached !== undefined
CacheHit(cached) == cached # Undefined
\* A getOrSet that shares the computation of a call of the same key that is
\* still awaiting its fn.
InvokesFnUnlessPending(k) ==
    ~\E q \in CacheCallers : cPc[q].pc = "compute" /\ cPc[q].key = k
\* getOrSet, line 87: on a miss fn is invoked, whatever other calls are doing
\* (lines 74-90 keep no record of the calls in progress).
InvokesFn(k) == TRUE

\* A getOrSet that stores whatever the await of fn ends with.
StoresAnyResult(r) == TRUE
\* getOrSet, lines 87-88: this.set runs after await fn() has returned a
\* value; a rejection leaves the function at the await.
StoresResult(r) == r # "threw"

\* A cache call is made.
CacheBegin ==
    /\ calls < MaxCacheCalls
    /\ calls' = calls + 1
\* A cache call returns.
Returned(o, k, v, ttl, r, n, c) ==
    cLast' = [op |-> o, key |-> k, val |-> v, ttl |-> ttl, ret |-> r, count |-> n,
              at |-> clock, computed |-> c]

\* set(key, value, ttl), lines 23-25.
set(k, v, ttl) ==
    /\ CacheBegin
    /\ cache' = StoredBy(k, v, ttl)
    /\ Returned("set", k, v, ttl, "true", 0, FALSE)
    /\ UNCHANGED <<clock, cPc, fnCalls, cacheFrame>>

\* get(key), lines 30-32.
get(k) ==
    /\ CacheBegin
    /\ cache' = AfterCheck(k)
    /\ Returned("get", k, Undefined, 0, Lookup(k), 0, FALSE)
    /\ UNCHANGED <<clock, cPc, fnCalls, cacheFrame>>

\* has(key), lines 37-39.
has(k) ==
    /\ CacheBegin
    /\ cache' = AfterCheck(k)
    /\ Returned("has", k, Undefined, 0, IF LiveEntry(k) THEN "true" ELSE "false", 0, FALSE)
    /\ UNCHANGED <<clock, cPc, fnCalls, cacheFrame>>

\* del(key), lines 44-46.
del(k) ==
    /\ CacheBegin
    /\ cache' = Set(cache, k, NoEntry)
    /\ Returned("del", k, Undefined, 0, Undefined, IF cache[k] # NoEntry THEN 1 ELSE 0, FALSE)
    /\ UNCHANGED <<clock, cPc, fnCalls, cacheFrame>>

\* delByPrefix(prefix), lines 51-54.
delByPrefix(pre) ==
    /\ CacheBegin
    /\ cache' = [k \in CacheKeys |-> IF k \in KeysWithPrefix(pre) THEN NoEntry ELSE cache[k]]
    /\ Returned("delByPrefix", pre, Undefined, 0, Undefined,
                Cardinality(KeysWithPrefix(pre)), FALSE)
    /\ UNCHANGED <<clock, cPc, fnCalls, cacheFrame>>

\* flush(), lines 59-61.
flush ==
    /\ CacheBegin
    /\ cache' = [k \in CacheKeys |-> NoEntry]
    /\ Returned("flush", <<>>, Undefined, 0, Undefined, 0, FALSE)
    /\ UNCHANGED <<clock, cPc, fnCalls, cacheFrame>>

\* getOrSet(key, fn, ttl) up to its await (lines 74-87): a hit returns the
\* cached value, a miss invokes fn.
getOrSet(p, k, ttl) ==
    /\ CacheBegin
    /\ cPc[p].pc = "idle"
    /\ \A q \in 1..(p - 1) : cPc[q].pc # "idle"
    /\ cache' = AfterCheck(k)
    /\ IF CacheHit(Lookup(k))
       THEN /\ Returned("getOrSet", k, Undefined, ttl, Lookup(k), 0, FALSE)
            /\ UNCHANGED <<cPc, fnCalls>>
       ELSE /\ cPc' = Set(cPc, p, [pc |-> "compute", key |-> k, ttl |-> ttl])
            /\ fnCalls' = IF InvokesFn(k) THEN fnCalls + 1 ELSE fnCalls
            /\ UNCHANGED cLast
    /\ UNCHANGED <<clock, cacheFrame>>

\* fn() settles (lines 87-89): its value is stored and returned; a rejection
\* is passed on to the caller.
GetOrSetDone(p) ==
    /\ cPc[p].pc = "compute"
    /\ cPc' = Set(cPc, p, NoCompute)
    /\ \E r \in FnValues \cup {"threw"} :
        /\ cache' = IF StoresResult(r) THEN StoredBy(cPc[p].key, r, cPc[p].ttl) ELSE cache
        /\ Returned("getOrSet", cPc[p].key, Undefined, cPc[p].ttl, r, 0, TRUE)
    /\ UNCHANGED <<clock, fnCalls, calls, cacheFrame>>

\* Time passes.
Tick(d) ==
    /\ TicksIn(clock) < MaxTicks
    /\ clock' = clock + d
    /\ UNCHANGED <<cache, cPc, cLast, fnCalls, calls, cacheFrame>>

\* NodeCache's periodic check (checkperiod, line 15) deletes the expired entries.
CheckData ==
    /\ \E k \in CacheKeys : cache[k] # NoEntry /\ Expired(cache[k])
    /\ cache' = [k \in CacheKeys |->
                    IF cache[k] # NoEntry /\ Expired(cache[k]) THEN NoEntry ELSE cache[k]]
    /\ UNCHANGED <<clock, cPc, cLast, fnCalls, calls, cacheFrame>>

NextCache ==
    \/ \E k \in CacheKeys, v \in CacheValues, ttl \in TtlArgs : set(k, v, ttl)
    \/ \E k \in CacheKeys : get(k)
    \/ \E k \in CacheKeys : has(k)
    \/ \E k \in CacheKeys : del(k)
    \/ \E pre \in Prefixes : delByPrefix(pre)
    \/ flush
    \/ \E p \in CacheCallers, k \in CacheKeys, ttl \in TtlArgs : getOrSet(p, k, ttl)
    \/ \E p \in CacheCallers : GetOrSetDone(p)
    \/ \E d \in TickSizes : Tick(d)
    \/ CheckData

\* The cache as earlier calls of set, made when the clock was 0, have left it.
InitFilled ==
    /\ InitSession
    /\ MondayOff
    /\ NormOff
    /\ TimeOff
    /\ TableOff
    /\ HandlerOff
    /\ cache \in [CacheKeys -> {NoEntry} \cup
                    {[v |-> v, t |-> EffectiveTtl(ttl)] : v \in CacheValues, ttl \in TtlArgs}]
    /\ clock = 0
    /\ cPc = [p \in CacheCallers |-> NoCompute]
    /\ cLast = NoCacheCall
    /\ fnCalls = 0

SpecCache == InitFilled /\ [][NextCache]_vars

\* -------------------------------------------------- the time derivation
\* A text is a sequence of pieces; numbers and times are written out in
\* characters.
DigitChars == <<"0", "1", "2", "3", "4", "5", "6", "7", "8", "9">>
RECURSIVE NumToString(_)
\* Number.prototype.toString() of a natural number.
NumToString(n) ==
    IF n < 10 THEN <<DigitChars[n + 1]>>
    ELSE NumToString(n \div 10) \o <<DigitChars[(n % 10) + 1]>>
\* padStart(2, '0')
PadStart2(t) == IF Len(t) < 2 THEN <<"0">> \o t ELSE t
\* `${hh.toString().padStart(2, '0')}:${mm.toString().padStart(2, '0')}`
FormatTime(hh, mm) == PadStart2(NumToString(hh)) \o <<":">> \o PadStart2(NumToString(mm))

\* A start hour that advances by one hour per lesson.
StartHourPerLesson(h) == 8 + (h - 1)
\* getTimetable, line 341: 8 + Math.floor((lesson.hour - 1) * 0.75)
StartHour(h) == 8 + (3 * (h - 1)) \div 4
\* getTimetable, line 342
StartMinute(h) == ((h - 1) * 45) % 60
\* getTimetable, line 343
EndMinute(h) == (StartMinute(h) + 45) % 60
\* getTimetable, line 344
EndHour(h) == StartHour(h) + (StartMinute(h) + 45) \div 60
\* getTimetable, lines 341-347.
TimesOf(h) ==
    [startHour |-> StartHour(h), startMinute |-> StartMinute(h),
     endHour |-> EndHour(h), endMinute |-> EndMinute(h),
     startTime |-> FormatTime(StartHour(h), StartMinute(h)),
     endTime |-> FormatTime(EndHour(h), EndMinute(h))]

\* The largest hour index the derivation is applied to.
MaxHour == 40

InitTime ==
    /\ InitSession
    /\ MondayOff
    /\ InitCache
    /\ NormOff
    /\ TableOff
    /\ HandlerOff
    /\ tPc = "start"
    /\ tHour \in 1..MaxHour
    /\ tTimes = NoTimes
    /\ tNext = NoTimes

\* The times of lesson tHour.
DeriveTimes ==
    /\ tPc = "start"
    /\ tTimes' = TimesOf(tHour)
    /\ tPc' = "derived"
    /\ UNCHANGED <<sessVars, envVars, attemptRes, procVars, mondayVars, cacheVars,
                   normVars, tableVars, handlerVars, tHour, tNext>>

\* The times of the lesson after it.
DeriveNext ==
    /\ tPc = "derived"
    /\ tNext' = TimesOf(tHour + 1)
    /\ tPc' = "next"
    /\ UNCHANGED <<sessVars, envVars, attemptRes, procVars, mondayVars, cacheVars,
                   normVars, tableVars, handlerVars, tHour, tTimes>>

NextTime == DeriveTimes \/ DeriveNext

SpecTime == InitTime /\ [][NextTime]_vars

\* ------------------------------------------- extraction and normalisation
\* A property that is undefined.
Absent == <<Undefined>>
\* Truthiness of a text: neither undefined nor empty.
Truthy(t) == t # Absent /\ t # <<>>
\* a || d on texts
OrElse(t, d) == IF Truthy(t) THEN t ELSE d
\* The white space String.prototype.trim removes: blanks and line breaks.
WhiteSpace == {" ", "\n"}
RECURSIVE TrimStart(_)
TrimStart(t) == IF t # <<>> /\ Head(t) \in WhiteSpace THEN TrimStart(Tail(t)) ELSE t
RECURSIVE TrimEnd(_)
TrimEnd(t) ==
    IF t # <<>> /\ t[Len(t)] \in WhiteSpace THEN TrimEnd(SubSeq(t, 1, Len(t) - 1)) ELSE t
\* String.prototype.trim
Trim(t) == TrimEnd(TrimStart(t))

\* A cell of the day's column: whether it holds a .lesson-cell, the texts of
\* its .timetable-left / -right / -bottom parts, and its marks:
\*   changed         class substitution or changed, a change info, or a badge
\*   cancelledClass  class cancelled
\*   cancelText      the text says the lesson is cancelled
NoLessonCell == [lesson |-> FALSE, left |-> <<>>, right |-> <<>>, bottom |-> <<>>,
                 changed |-> FALSE, cancelledClass |-> FALSE, cancelText |-> FALSE]
CellTexts == {[left |-> <<"Ma">>, right |-> <<"Mue">>, bottom |-> <<"R1">>],
              [left |-> <<" ", "De", " ">>, right |-> <<>>, bottom |-> <<>>],
              [left |-> <<" ">>, right |-> <<"Mue">>, bottom |-> <<"R1">>],
              [left |-> <<"En">>, right |-> Absent, bottom |-> Absent],
              [left |-> Absent, right |-> <<"Mue">>, bottom |-> <<"R1">>]}
Cells ==
    {NoLessonCell} \cup
    {[lesson |-> TRUE, left |-> x.left, right |-> x.right, bottom |-> x.bottom,
      changed |-> ch, cancelledClass |-> cc, cancelText |-> ct] :
        x \in CellTexts, ch \in BOOLEAN, cc \in BOOLEAN, ct \in BOOLEAN}

\* A read of a part that takes the text as it is.
RegionTextUnguarded(part) == Trim(part)
\* extractor, lines 240-247: (part?.querySelector('span')?.textContent ||
\* part?.textContent)?.trim() || '' for a part that is missing (Absent) or
\* has the text given.
RegionText(part) == IF part = Absent THEN <<>> ELSE Trim(part)
\* extractor, lines 256-259
CellCancelled(c) == c.cancelledClass \/ c.cancelText
\* A class check that leaves out the class cancelled.
CellSubstitutionChangedOnly(c) == c.changed
\* extractor, lines 251-253 and 267-269
CellSubstitution(c) == c.changed \/ c.cancelledClass
\* extractor, lines 272-280: the slot pushed for the cell in row hourNumber
RawSlot(c, hourNumber) ==
    [hour |-> hourNumber, class |-> RegionText(c.left), teacher |-> RegionText(c.right),
     room |-> RegionText(c.bottom), isSubstitution |-> CellSubstitution(c),
     isCancelled |-> CellCancelled(c)]
\* An extractor that pushes a slot for every lesson cell.
KeepsEveryLessonCell(c) == c.lesson
\* extractor, lines 237 and 271: if (lessonCell) ... if (className)
KeepsSlot(c) == c.lesson /\ Truthy(RegionText(c.left))
RECURSIVE ExtractFrom(_, _)
\* extractor, lines 230-286, for one day's column: rows in order.
ExtractFrom(cells, i) ==
    IF i > Len(cells) THEN <<>>
    ELSE (IF KeepsSlot(cells[i]) THEN <<RawSlot(cells[i], i)>> ELSE <<>>)
         \o ExtractFrom(cells, i + 1)
ExtractDay(cells) == ExtractFrom(cells, 1)

\* The date the timetable is asked for.
NormDate == <<"2025-01-01">>
\* LessonModel.fromScrapedData
LessonFromScrapedData(data) ==
    [id |-> OrElse(data.id, data.date \o <<"-">> \o NumToString(data.lessonNumber)),
     subject |-> OrElse(data.subject, <<"Unbekannt">>),
     teacher |-> OrElse(data.teacher, <<"N/A">>),
     room |-> OrElse(data.room, <<"N/A">>),
     startTime |-> OrElse(data.startTime, <<"00:00">>),
     endTime |-> OrElse(data.endTime, <<"00:00">>),
     lessonNumber |-> data.lessonNumber,
     date |-> OrElse(data.date, <<"today">>),
     isSubstitution |-> data.isSubstitution,
     isCancelled |-> data.isCancelled]
\* getTimetable, lines 338-360: the Lesson of a raw slot
ToLesson(slot, date) ==
    LessonFromScrapedData(
        [id |-> Absent, subject |-> slot.class, teacher |-> slot.teacher,
         room |-> slot.room, startTime |-> TimesOf(slot.hour).startTime,
         endTime |-> TimesOf(slot.hour).endTime, lessonNumber |-> slot.hour,
         date |-> date, isSubstitution |-> slot.isSubstitution,
         isCancelled |-> slot.isCancelled])
\* getTimetable, line 338: daySchedule.map(...)
toLessons(day, date) == [i \in 1..Len(day) |-> ToLesson(day[i], date)]

\* A filter that takes the lessons marked as substitutions only.
SelectedIfSubstitution(lesson) == lesson.isSubstitution
\* getSubstitutions, line 389
Selected(lesson) == lesson.isSubstitution \/ lesson.isCancelled
\* An original teacher copied from the lesson in every case.
OriginalTeacherCopied(lesson) == lesson.teacher
\* getSubstitutions, line 395
OriginalTeacherOf(lesson) == IF lesson.isCancelled THEN <<"Unbekannt">> ELSE lesson.teacher
\* An object that carries the original fields only.
SubstitutionDataOriginalOnly(lesson) ==
    [id |-> Absent, date |-> lesson.date, lessonNumber |-> lesson.lessonNumber,
     originalSubject |-> lesson.subject,
     originalTeacher |-> lesson.teacher,
     substituteTeacher |-> Absent,
     substituteSubject |-> Absent,
     room |-> lesson.room, originalRoom |-> Absent,
     isCancelled |-> lesson.isCancelled,
     info |-> IF lesson.isCancelled THEN <<"Stunde ", "faellt aus">> ELSE <<"Vertretung">>,
     note |-> Absent]
\* getSubstitutions, lines 391-401: the object given to fromScrapedData; it
\* has an info property and no id, originalRoom or note property.
SubstitutionData(lesson) ==
    [id |-> Absent, date |-> lesson.date, lessonNumber |-> lesson.lessonNumber,
     originalSubject |-> lesson.subject,
     originalTeacher |-> OriginalTeacherOf(lesson),
     substituteTeacher |-> IF lesson.isCancelled THEN Absent ELSE lesson.teacher,
     substituteSubject |-> IF lesson.isCancelled THEN Absent ELSE lesson.subject,
     room |-> lesson.room, originalRoom |-> Absent,
     isCancelled |-> lesson.isCancelled,
     info |-> IF lesson.isCancelled THEN <<"Stunde ", "faellt aus">> ELSE <<"Vertretung">>,
     note |-> Absent]
\* fromScrapedData, line 66: data.note?.toLowerCase().includes('faellt aus')
NoteSaysCancelled(note) == note # Absent /\ Includes(note, <<"faellt aus">>)
\* A type taken from the note alone.
SubstitutionTypeByNote(data) ==
    IF NoteSaysCancelled(data.note) THEN "cancellation" ELSE "substitution"
\* SubstitutionModel.fromScrapedData, lines 65-72
SubstitutionType(data) ==
    IF data.isCancelled \/ NoteSaysCancelled(data.note) THEN "cancellation"
    ELSE IF Truthy(data.substituteTeacher) \/ Truthy(data.substituteSubject) THEN "substitution"
    ELSE IF Truthy(data.room) /\ data.room # data.originalRoom THEN "room_change"
    ELSE "other"
\* SubstitutionModel.fromScrapedData, lines 74-86
SubstitutionFromScrapedData(data) ==
    [id |-> OrElse(data.id, data.date \o <<"-">> \o NumToString(data.lessonNumber)),
     date |-> OrElse(data.date, <<"today">>),
     lessonNumber |-> data.lessonNumber,
     originalSubject |-> OrElse(data.originalSubject, <<"Unbekannt">>),
     originalTeacher |-> OrElse(data.originalTeacher, <<"N/A">>),
     substituteSubject |-> data.substituteSubject,
     substituteTeacher |-> data.substituteTeacher,
     room |-> data.room,
     isCancelled |-> data.isCancelled,
     note |-> data.note,
     type |-> SubstitutionType(data)]
\* getSubstitutions, lines 386-405
toSubstitutions(lessons) ==
    LET chosen == SelectSeq(lessons, Selected)
    IN  [i \in 1..Len(chosen) |-> SubstitutionFromScrapedData(SubstitutionData(chosen[i]))]

\* A filter that takes every changed lesson.
LessonChanged(lesson) == lesson.isCancelled \/ lesson.isSubstitution
\* getCancelledClasses, line 440: lesson => lesson.isCancelled
LessonCancelled(lesson) == lesson.isCancelled
\* getCancelledClasses, line 440
getCancelledOnly(lessons) == SelectSeq(lessons, LessonCancelled)

\* The largest number of rows of the schedule table.
MaxSlots == 2

InitNorm ==
    /\ InitSession
    /\ MondayOff
    /\ InitCache
    /\ TimeOff
    /\ TableOff
    /\ HandlerOff
    /\ nPc = "cells"
    /\ nCells \in UNION {[1..n -> Cells] : n \in 0..MaxSlots}
    /\ nDay = <<>>
    /\ nLessons = <<>>
    /\ nSubs = <<>>
    /\ nCancelled = <<>>

normFrame == <<sessVars, envVars, attemptRes, procVars, mondayVars, cacheVars, timeVars,
               tableVars, handlerVars>>

\* The extractor runs over the day's column (lines 200-289).
Extract ==
    /\ nPc = "cells"
    /\ nDay' = ExtractDay(nCells)
    /\ nPc' = "extracted"
    /\ UNCHANGED <<nCells, nLessons, nSubs, nCancelled, normFrame>>

\* getTimetable converts the day's slots (lines 338-363).
ToLessons ==
    /\ nPc = "extracted"
    /\ nLessons' = toLessons(nDay, NormDate)
    /\ nPc' = "lessons"
    /\ UNCHANGED <<nCells, nDay, nSubs, nCancelled, normFrame>>

\* getSubstitutions derives the substitutions (lines 383-408).
ToSubstitutions ==
    /\ nPc = "lessons"
    /\ nSubs' = toSubstitutions(nLessons)
    /\ nPc' = "subs"
    /\ UNCHANGED <<nCells, nDay, nLessons, nCancelled, normFrame>>

\* getCancelledClasses filters the lessons (lines 437-443).
ToCancelled ==
    /\ nPc = "lessons"
    /\ nCancelled' = getCancelledOnly(nLessons)
    /\ nPc' = "cancelled"
    /\ UNCHANGED <<nCells, nDay, nLessons, nSubs, normFrame>>

NextNorm == Extract \/ ToLessons \/ ToSubstitutions \/ ToCancelled

SpecNorm == InitNorm /\ [][NextNorm]_vars

\* ------------------------------------------------------ the lesson marker
\* A .lesson-cell element: its class list, the class of the badge element it
\* contains ("none": no such child), the text of its .substitution-info /
\* .change-info child (Absent: no such child), the texts of its three regions
\* and the text it holds beside them.
ClassNames == {"substitution", "changed", "cancelled", "highlight"}
\* extractor, line 269: '.text-warning, .text-danger, .badge-warning'
BadgeSelectors == {"text-warning", "text-danger", "badge-warning"}
BadgeClasses == BadgeSelectors \cup {"badge-danger", "badge-info", "none"}
InfoTexts == {Absent, <<>>, <<" ">>, <<" ", "Raum 2">>, <<"faellt aus">>}
MarkerTexts == {<<>>, <<"faellt aus">>, <<"entfaellt">>, <<"Entfaellt">>}
\* extractor, lines 257-258: the two phrases looked for in textContent.
CancelPhrases == {<<"faellt aus">>, <<"entfaellt">>}
Markers ==
    [classes : SUBSET ClassNames, badge : BadgeClasses, info : InfoTexts,
     text : MarkerTexts, left : {<<"Ma">>}, right : {<<"Mue">>}, bottom : {<<"R1">>}]

\* extractor, lines 262-263: substitutionElement?.textContent?.trim() || ''
SubstitutionInfo(m) == IF m.info = Absent THEN <<>> ELSE Trim(m.info)
\* lessonCell.textContent: the text of all descendants, in document order.
TextContent(m) ==
    m.left \o m.right \o m.bottom \o m.text \o (IF m.info = Absent THEN <<>> ELSE m.info)
\* extractor, lines 251-269: the marks of the cell the marker stands in.
CellOfMarker(m) ==
    [lesson |-> TRUE, left |-> m.left, right |-> m.right, bottom |-> m.bottom,
     changed |-> \/ "substitution" \in m.classes
                 \/ "changed" \in m.classes
                 \/ Len(SubstitutionInfo(m)) > 0
                 \/ m.badge \in BadgeSelectors,
     cancelledClass |-> "cancelled" \in m.classes,
     cancelText |-> \E ph \in CancelPhrases : Includes(TextContent(m), ph)]

InitClass ==
    /\ InitSession
    /\ MondayOff
    /\ InitCache
    /\ NormOff
    /\ TimeOff
    /\ HandlerOff
    /\ kPc = "marker"
    /\ kMarker \in Markers
    /\ kSlot = <<>>
    /\ wPc = "off"
    /\ wTable = NoTable
    /\ wDate = 0
    /\ wSchedule = NoSchedule
    /\ wLessons = <<>>

\* The extractor builds the slot of the marker (lines 237-280), in row 1.
Classify ==
    /\ kPc = "marker"
    /\ kSlot' = RawSlot(CellOfMarker(kMarker), 1)
    /\ kPc' = "classified"
    /\ UNCHANGED <<sessVars, envVars, attemptRes, procVars, mondayVars, cacheVars,
                   normVars, timeVars, kMarker, weekVars, handlerVars>>

NextClass == Classify

SpecClass == InitClass /\ [][NextClass]_vars

\* ------------------------------------------- the week table and the day
\* The largest number of lesson markers in the table.
MaxMarkers == 2

\* The cell of the end-to-end scenario: a marker with subject, teacher and
\* room and no deviation mark. A second marker carries the class cancelled.
MarkerCell ==
    [lesson |-> TRUE, left |-> <<"Mathe">>, right |-> <<"Schmidt">>, bottom |-> <<"101">>,
     changed |-> FALSE, cancelledClass |-> FALSE, cancelText |-> FALSE]
CancelledCell ==
    [lesson |-> TRUE, left |-> <<"Sport">>, right |-> <<>>, bottom |-> <<>>,
     changed |-> FALSE, cancelledClass |-> TRUE, cancelText |-> FALSE]
MarkerCells == {MarkerCell, CancelledCell}

\* The texts of the thead th cells of a table, the hour column first. The day
\* labels of one table are pairwise distinct and none is written in digits
\* only, so the schedule object lists its keys in the order of the columns.
PlainHeaders == << <<"Stunde">>, <<"Mo">>, <<"Di">>, <<"Mi">>, <<"Do">>, <<"Fr">> >>
DatedHeaders ==
    << <<>>, <<"\n", " ", "Mo", " ", "\n", "06.01.">>, <<"Di", "\n", "07.01.">>,
       <<"Fr", "\n", "10.01.">>, <<"Sa", "\n", "11.01.">> >>
TwoWeekHeaders == << <<"Woche">>, <<"Di", " A">>, <<"Mo", " A">>, <<"Mo", " B">> >>
HeaderRows == {PlainHeaders, DatedHeaders, TwoWeekHeaders}

\* The rows of td cells of a table with n day columns and r rows that holds
\* the markers f (a function from positions <<row, column>> to marker cells):
\* each row has one td under each day header.
RowsOf(n, r, f) ==
    [i \in 1..r |-> [j \in 1..n |-> IF <<i, j>> \in DOMAIN f THEN f[<<i, j>>] ELSE NoLessonCell]]
Placements(n, r) ==
    UNION {[S -> MarkerCells] :
             S \in {T \in SUBSET ((1..r) \X (1..n)) : Cardinality(T) <= MaxMarkers}}
Tables ==
    UNION {{[headers |-> h, rows |-> RowsOf(Len(h) - 1, r, f)] : f \in Placements(Len(h) - 1, r)} :
             h \in HeaderRows, r \in 0..MaxSlots}

\* extractor, lines 219-220: the first line of the trimmed header text, trimmed.
FirstLine(t) ==
    IF \E i \in 1..Len(t) : t[i] = "\n"
    THEN SubSeq(t, 1, (CHOOSE i \in 1..Len(t) : t[i] = "\n" /\ \A j \in 1..(i - 1) : t[j] # "\n") - 1)
    ELSE t
DayName(dayText) == Trim(FirstLine(Trim(dayText)))
\* extractor, lines 216-222: the day names, the first column skipped.
DaysOf(headers) == [i \in 1..(Len(headers) - 1) |-> DayName(headers[i + 1])]

\* schedule[day] = [] (line 226): a new key is added behind the others, a key
\* that exists keeps its place.
WithKey(sched, day) ==
    IF \E i \in 1..Len(sched) : sched[i].key = day
    THEN [i \in 1..Len(sched) |-> IF sched[i].key = day THEN [key |-> day, slots |-> <<>>]
                                                          ELSE sched[i]]
    ELSE Append(sched, [key |-> day, slots |-> <<>>])
RECURSIVE WithKeys(_, _, _)
\* days.forEach(day => schedule[day] = []), lines 225-227
WithKeys(sched, days, i) ==
    IF i > Len(days) THEN sched ELSE WithKeys(WithKey(sched, days[i]), days, i + 1)
\* schedule[days[dayIndex]].push(lesson), line 282
Push(sched, day, slot) ==
    [i \in 1..Len(sched) |->
        IF sched[i].key = day THEN [sched[i] EXCEPT !.slots = Append(@, slot)] ELSE sched[i]]
\* A row number that does not follow the rows.
HourNumberFixed(hourIndex) == 1
\* extractor, line 232: const hourNumber = hourIndex + 1
HourNumber(hourIndex) == hourIndex + 1
RECURSIVE ExtractCells(_, _, _, _, _)
\* extractor, lines 230-286: the rows in order and, in each, the cells in
\* order (hourIndex and dayIndex count from 0).
ExtractCells(sched, rows, days, hourIndex, dayIndex) ==
    IF hourIndex >= Len(rows) THEN sched
    ELSE IF dayIndex >= Len(rows[hourIndex + 1])
    THEN ExtractCells(sched, rows, days, hourIndex + 1, 0)
    ELSE LET cell == rows[hourIndex + 1][dayIndex + 1]
         IN  ExtractCells(IF KeepsSlot(cell)
                          THEN Push(sched, days[dayIndex + 1], RawSlot(cell, HourNumber(hourIndex)))
                          ELSE sched,
                          rows, days, hourIndex, dayIndex + 1)
\* extractor, lines 200-289
ExtractWeek(table) ==
    ExtractCells(WithKeys(NoSchedule, DaysOf(table.headers), 1), table.rows,
                 DaysOf(table.headers), 0, 0)

\* The date strings getTimetable is called with: the days of one week,
\* Monday 2025-01-06 to Sunday 2025-01-12.
WeekDates == {CivilFromDays(FirstDay + 14 + k) : k \in 0..6}
\* The text of a date, YYYY-MM-DD.
DateText(civ) ==
    NumToString(civ[1]) \o <<"-">> \o PadStart2(NumToString(civ[2])) \o <<"-">>
        \o PadStart2(NumToString(civ[3]))
\* toLocaleDateString('de-DE', { weekday: 'long' }) for getDay() = 0..6
GermanWeekdays ==
    << <<"Sonntag">>, <<"Montag">>, <<"Dienstag">>, <<"Mittwoch">>, <<"Donnerstag">>,
       <<"Freitag">>, <<"Samstag">> >>
\* getTimetable, lines 314-315: new Date(date) is midnight UTC of the date,
\* its weekday is read in the time zone of the process.
DayOfWeek(civ, zone) == GermanWeekdays[GetDay(ParseISODate(civ), zone) + 1]
\* getTimetable, lines 318-326: dayMapping[dayOfWeek], undefined for the
\* names that are not in the mapping.
ShortDay(dayOfWeek) ==
    CASE dayOfWeek = <<"Montag">> -> <<"Mo">>
      [] dayOfWeek = <<"Dienstag">> -> <<"Di">>
      [] dayOfWeek = <<"Mittwoch">> -> <<"Mi">>
      [] dayOfWeek = <<"Donnerstag">> -> <<"Do">>
      [] dayOfWeek = <<"Freitag">> -> <<"Fr">>
      [] OTHER -> Absent
\* getTimetable, lines 330-335: the first key that includes shortDay
\* (includes(undefined) looks for the text "undefined").
MatchingKey(sched, shortDay) ==
    CHOOSE i \in 1..Len(sched) :
        /\ Includes(sched[i].key, shortDay)
        /\ \A j \in 1..(i - 1) : ~Includes(sched[j].key, shortDay)
\* getTimetable, lines 329-335
DaySchedule(sched, shortDay) ==
    IF \E i \in 1..Len(sched) : Includes(sched[i].key, shortDay)
    THEN sched[MatchingKey(sched, shortDay)].slots
    ELSE <<>>
\* getTimetable, lines 313-363, on the week schedule it has fetched.
getTimetable(sched, civ, zone) ==
    toLessons(DaySchedule(sched, ShortDay(DayOfWeek(civ, zone))), DateText(civ))

InitWeek ==
    /\ InitSession
    /\ InitCache
    /\ NormOff
    /\ TimeOff
    /\ tz \in TimeZones
    /\ mPc = "off"
    /\ mDate = 0
    /\ mResult = NoDate
    /\ mAgain = NoDate
    /\ kPc = "off"
    /\ kMarker = <<>>
    /\ kSlot = <<>>
    /\ HandlerOff
    /\ wPc = "table"
    /\ wTable \in Tables
    /\ wDate = 0
    /\ wSchedule = NoSchedule
    /\ wLessons = <<>>

weekFrame == <<sessVars, envVars, attemptRes, procVars, mondayVars, cacheVars, normVars,
               timeVars, classVars, handlerVars>>

\* page.evaluate runs the extractor on the table (lines 200-289).
ExtractTable ==
    /\ wPc = "table"
    /\ wSchedule' = ExtractWeek(wTable)
    /\ wPc' = "week"
    /\ UNCHANGED <<wTable, wDate, wLessons, weekFrame>>

\* getTimetable(date) selects the day and converts its slots (lines 313-363).
SelectDay(date) ==
    /\ wPc = "week"
    /\ wDate' = date
    /\ wLessons' = getTimetable(wSchedule, date, tz)
    /\ wPc' = "lessons"
    /\ UNCHANGED <<wTable, wSchedule, weekFrame>>

NextWeek == ExtractTable \/ \E date \in WeekDates : SelectDay(date)

SpecWeek == InitWeek /\ [][NextWeek]_vars

\* ------------------------------------------------- the request handlers
\* The largest number of requests.
MaxRequests == 2

\* The handlers of timetable.controller.ts (timetable, cancelled and
\* substitutions controllers).
TimetableHandlers ==
    {"getTodayTimetable", "getTomorrowTimetable", "getTimetableByDate", "getWeekTimetable"}
CancelledHandlers ==
    {"getCancelledToday", "getCancelledTomorrow", "getCancelledByDate", "getWeekCancelled"}
SubstitutionHandlers ==
    {"getTodaySubstitutions", "getTomorrowSubstitutions", "getSubstitutionsByDate"}
Handlers == TimetableHandlers \cup CancelledHandlers \cup SubstitutionHandlers
\* The handlers that take the date from the request path.
ByDateHandlers == {"getTimetableByDate", "getCancelledByDate", "getSubstitutionsByDate"}

\* The hours over which the requests are spread.
HandlerSpan == 8
\* The first request arrives on Sunday 2025-01-12 at 22:00 UTC.
HandlerStart == (FirstDay + 20) * 24 + 22
\* The time between two requests, in hours.
HandlerTicks == {4}
\* new Date() while a request is handled.
HandlerNow == hNow
\* new Date().toISOString().split('T')[0]
TodayDate == DateText(ToISODate(HandlerNow))
\* tomorrow.setDate(tomorrow.getDate() + 1); tomorrow.toISOString().split('T')[0]
TomorrowDate == DateText(ToISODate(SetDate(HandlerNow, tz, GetDate(HandlerNow, tz) + 1)))
\* getWeekCancelled, lines 411-416
MondayDate == DateText(getMondayOfWeek(HandlerNow, tz))

\* The date parameters of the requests, as texts of characters: two that
\* have the form YYYY-MM-DD (the second is no calendar date) and four that
\* have not (a one-digit month and day, a trailing character, dots, slashes).
DateParams ==
    {DateText(<<2025, 1, 6>>),
     <<"2", "0", "2", "5", "-", "1", "3", "-", "4", "5">>,
     <<"2", "0", "2", "5", "-", "1", "-", "6">>,
     <<"2", "0", "2", "5", "-", "0", "1", "-", "0", "6", "T">>,
     <<"0", "6", ".", "0", "1", ".", "2", "0", "2", "5">>,
     <<"2", "0", "2", "5", "/", "0", "1", "/", "0", "6">>}
IsDigit(c) == \E i \in 1..Len(DigitChars) : DigitChars[i] = c
\* /^\d{4}-\d{2}-\d{2}$/.test(date)
DateRegex(date) ==
    /\ Len(date) = 10
    /\ \A i \in {1, 2, 3, 4, 6, 7, 9, 10} : IsDigit(date[i])
    /\ date[5] = "-"
    /\ date[8] = "-"
\* A validation that lets every date through.
RejectsNothing(h, date) == FALSE
\* lines 124-135, 352-363, 590-601: if (!dateRegex.test(date)) { 400; return }
Rejects(h, date) == h \in ByDateHandlers /\ ~DateRegex(date)
\* The code of the 400 response.
InvalidCode(h) ==
    IF h = "getCancelledByDate" THEN <<"INVALID_DATE_FORMAT">> ELSE <<"INVALID_DATE">>

\* The date a handler works with: today, tomorrow, the date parameter; the
\* week handlers use the current week.
DateOf(h, param) ==
    CASE h \in {"getTodayTimetable", "getCancelledToday", "getTodaySubstitutions"} -> TodayDate
      [] h \in {"getTomorrowTimetable", "getCancelledTomorrow", "getTomorrowSubstitutions"}
           -> TomorrowDate
      [] h \in ByDateHandlers -> param
      [] h = "getWeekCancelled" -> MondayDate
      [] h = "getWeekTimetable" -> <<"current">>
\* The cache key of a handler.
KeyOf(h, date) ==
    CASE h = "getWeekTimetable" -> <<"timetable:", "week:">> \o date
      [] h = "getWeekCancelled" -> <<"cancelled:", "week:">> \o date
      [] h \in TimetableHandlers \ {"getWeekTimetable"} -> <<"timetable:", "default:">> \o date
      [] h \in CancelledHandlers \ {"getWeekCancelled"} -> <<"cancelled:", "default:">> \o date
      [] h \in SubstitutionHandlers -> <<"substitutions:", "default:">> \o date
\* The ttl argument of a handler's getOrSet call.
TtlOf(h) ==
    CASE h \in TimetableHandlers -> TimetableTtl
      [] h = "getWeekCancelled" -> TimetableTtl
      [] h \in CancelledHandlers \ {"getWeekCancelled"} -> SubstitutionsTtl
      [] h \in SubstitutionHandlers -> SubstitutionsTtl
\* The service function a handler's compute function calls after the login.
FetcherOf(h) ==
    CASE h \in {"getWeekTimetable", "getWeekCancelled"} -> "getWeekSchedule"
      [] h \in TimetableHandlers \ {"getWeekTimetable"} -> "getTimetable"
      [] h \in CancelledHandlers \ {"getWeekCancelled"} -> "getCancelledClasses"
      [] h \in SubstitutionHandlers -> "getSubstitutions"

\* The responses: the envelope's success flag and error code, and the status.
Ok200(week) == [status |-> 200, success |-> TRUE, code |-> <<>>, week |-> week]
BadRequest(h) == [status |-> 400, success |-> FALSE, code |-> InvalidCode(h), week |-> <<>>]
\* next(error), answered by the error middleware (part_002, lines 98-109)
InternalError ==
    [status |-> 500, success |-> FALSE, code |-> <<"INTERNAL_ERROR">>, week |-> <<>>]

InitHandler ==
    /\ InitSession
    /\ MondayOff
    /\ InitCache
    /\ NormOff
    /\ TimeOff
    /\ TableOff
    /\ hPc = "idle"
    /\ hReq = NoRequest
    /\ hRes = NoResponse
    /\ hLog = NoEffects
    /\ hStore = {}
    /\ hCount = 0
    /\ hNow = HandlerStart

handlerFrame == <<browser, page, loginPromise, envVars, attemptRes, procVars, mondayVars,
                  cacheVars, normVars, timeVars, tableVars>>

\* NodeCache._check: an entry is live until its ttl (in seconds) has passed.
LiveAt(e, now) == (now - e.at) * 3600 <= e.ttl
\* A lookup that finds nothing.
StoredNever(key) == FALSE
\* cacheService.get(key) finds a live entry.
Stored(key) == \E e \in hStore : e.key = key /\ LiveAt(e, hNow)
\* The week of the value cached under a key.
StoredWeek(key) == (CHOOSE e \in hStore : e.key = key /\ LiveAt(e, hNow)).week
\* The instant the week fetch behind a handler is anchored at: new Date() in
\* getWeekSchedule (part_001, line 183) for the fetchers that take a date
\* string, today for getWeekCancelled (line 434).
FetchAnchor(h) == HandlerNow
\* The Monday of the schedule a fetch of the handler returns.
FetchedWeek(h) == getMondayOfWeek(FetchAnchor(h), tz)
\* The call of the fetcher, with the date it is given.
Fetch(h, date) == [fn |-> FetcherOf(h), date |-> date]

\* A request arrives: the handler runs to its response or to its first await
\* (the login when the service is not logged in, the fetch otherwise).
Request(h, param) ==
    /\ hPc = "idle"
    /\ hCount < MaxRequests
    /\ hCount' = hCount + 1
    /\ hReq' = [handler |-> h, date |-> DateOf(h, param)]
    /\ IF Rejects(h, param)
       THEN /\ hRes' = BadRequest(h)
            /\ hLog' = NoEffects
            /\ hPc' = "idle"
       ELSE IF Stored(KeyOf(h, DateOf(h, param)))
       THEN /\ hRes' = Ok200(StoredWeek(KeyOf(h, DateOf(h, param))))
            /\ hLog' = [NoEffects EXCEPT !.gets = 1]
            /\ hPc' = "idle"
       ELSE IF ~isLoggedIn
       THEN /\ hRes' = NoResponse
            /\ hLog' = [NoEffects EXCEPT !.gets = 1, !.logins = 1]
            /\ hPc' = "login"
       ELSE /\ hRes' = NoResponse
            /\ hLog' = [NoEffects EXCEPT !.gets = 1,
                                         !.fetches = <<Fetch(h, DateOf(h, param))>>]
            /\ hPc' = "fetch"
    /\ UNCHANGED <<isLoggedIn, hStore, hNow, handlerFrame>>

\* The login returns: true (the service is logged in, the fetcher is called)
\* or false (the compute function throws, next(error)).
LoginReturns(ok) ==
    /\ hPc = "login"
    /\ IF ok
       THEN /\ isLoggedIn' = TRUE
            /\ hLog' = [hLog EXCEPT !.fetches = <<Fetch(hReq.handler, hReq.date)>>]
            /\ hPc' = "fetch"
            /\ hRes' = hRes
       ELSE /\ isLoggedIn' = isLoggedIn
            /\ hLog' = hLog
            /\ hPc' = "idle"
            /\ hRes' = InternalError
    /\ UNCHANGED <<hReq, hStore, hCount, hNow, handlerFrame>>

\* The fetcher returns: getOrSet stores the value under the handler's key
\* with the handler's ttl, or the fetcher throws and nothing is stored.
FetchReturns(ok) ==
    /\ hPc = "fetch"
    /\ IF ok
       THEN /\ hStore' = {e \in hStore : e.key # KeyOf(hReq.handler, hReq.date)}
                            \cup {[key |-> KeyOf(hReq.handler, hReq.date),
                                   ttl |-> TtlOf(hReq.handler), by |-> hReq.handler,
                                   at |-> hNow, week |-> FetchedWeek(hReq.handler)]}
            /\ hLog' = [hLog EXCEPT !.sets = 1]
            /\ hRes' = Ok200(FetchedWeek(hReq.handler))
       ELSE /\ hStore' = hStore
            /\ hLog' = hLog
            /\ hRes' = InternalError
    /\ hPc' = "idle"
    /\ UNCHANGED <<isLoggedIn, hReq, hCount, hNow, handlerFrame>>

\* Time passes between two requests; NodeCache's periodic check deletes the
\* entries whose ttl has run out.
Elapse(d) ==
    /\ hPc = "idle"
    /\ hNow + d <= HandlerStart + HandlerSpan
    /\ hNow' = hNow + d
    /\ hStore' = {e \in hStore : LiveAt(e, hNow + d)}
    /\ UNCHANGED <<isLoggedIn, hPc, hReq, hRes, hLog, hCount, handlerFrame>>

\* close() is called on the service between two requests (part_001, lines
\* 453-460): the session is no longer logged in.
SessionCloses ==
    /\ hPc = "idle"
    /\ isLoggedIn
    /\ isLoggedIn' = ClosedLoggedIn
    /\ UNCHANGED <<handlerVars, handlerFrame>>

NextHandler ==
    \/ \E h \in Handlers, param \in DateParams : Request(h, param)
    \/ \E ok \in BOOLEAN : LoginReturns(ok)
    \/ \E ok \in BOOLEAN : FetchReturns(ok)
    \/ \E d \in HandlerTicks : Elapse(d)
    \/ SessionCloses

SpecHandler == InitHandler /\ [][NextHandler]_vars

\* ------------------------------------------------------------ properties
\* The step is a call of operation o: one that suspends at an await, or one
\* that returns without suspending.
IsCall(o) ==
    /\ calls' = calls + 1
    /\ \/ \E p \in Procs : op[p] = "none" /\ op'[p] = o
       \/ pc' = pc /\ last'.op = o
\* The call made in this step returns at once, with v, and leaves the session,
\* the browsers and the login attempts as they are.
ReturnsAtOnce(v) ==
    /\ pc' = pc
    /\ last'.ret = v
    /\ last'.how = "now"
    /\ UNCHANGED <<sessVars, envVars, attemptRes>>
\* The login calls running performLogin.
Authenticating == {p \in Procs : op[p] = "login" /\ pc[p] \in LoginPcs}
\* No login() call is running.
NoLoginPending == \A p \in Procs : op[p] # "login"
\* The URLs of the portal's authenticated area.
AuthenticatedUrls ==
    {DashboardUrl} \cup {ScheduleUrl(getMondayOfWeek(d, tz)) : d \in FetchDates}

\* C1: single-flight login: under every interleaving of login() calls at most
\* one authentication sequence (performLogin) is in progress; a login() that
\* arrives while one is in progress starts no second one.
C1_SingleFlight == Cardinality(Authenticating) <= 1
\* A login() has joined an authentication sequence that is in progress.
C1_Witness ==
    \E p, q \in Procs : p \in Authenticating /\ pc[p] = "click" /\ pc[q] = "join"

\* C2: every login() that awaited an attempt, the joiners as the initiator,
\* returns the boolean that attempt produced.
C2_SharedResult ==
    [][\A p \in Procs :
        pc[p] \in {"join", "loginAwait"} /\ pc'[p] = "idle"
        => /\ last'.op = "login"
           /\ last'.ret = attemptRes[loc[p].att]
           /\ last'.ret \in {"true", "false"}]_vars
\* A joiner returned false while the initiator, which got the same false, has
\* gone on to other work.
C2_Witness ==
    /\ last.op = "login" /\ last.how = "joined" /\ last.ret = "false"
    /\ NoLoginPending
    /\ calls = MaxCalls

\* C3: whenever no login() call is running loginPromise is null, and a login()
\* made then on an unauthenticated session (so after a failed attempt too)
\* starts a fresh attempt instead of joining an old one.
C3_MarkerCleared ==
    /\ [](NoLoginPending => loginPromise = 0)
    /\ [][NoLoginPending /\ ~isLoggedIn /\ IsCall("login")
          => \E p \in Procs :
                /\ op[p] = "none" /\ op'[p] = "login"
                /\ pc'[p] \in {"launch", "initDone"}
                /\ loginPromise' = loc'[p].att
                /\ attemptRes[loginPromise'] = "none"
                /\ attemptRes'[loginPromise'] = "pending"]_vars
\* A login() has returned false from an attempt of its own, and a later
\* login() runs a fresh attempt.
C3_Witness ==
    /\ last.op = "login" /\ last.how = "awaited" /\ last.ret = "false"
    /\ Authenticating # {}

\* C4: on an authenticated session login() returns true at once: it starts no
\* attempt and no browser operation and leaves browser, page, isLoggedIn and
\* loginPromise unchanged.
C4_LoggedInShortcut ==
    [][isLoggedIn /\ IsCall("login") => ReturnsAtOnce("true")]_vars
\* A login() on an authenticated session has returned true without suspending.
C4_Witness ==
    /\ last.op = "login" /\ last.how = "now" /\ last.ret = "true"
    /\ isLoggedIn

\* C5: login() never raises: every login() returns true or false; an attempt
\* that fails with an exception produces false and leaves isLoggedIn false.
C5_LoginNeverThrows ==
    /\ [](last.op = "login" => last.ret \in {"true", "false"})
    /\ [][\A p \in Procs :
            op[p] = "login" /\ pc[p] \in LoginPcs /\ pc'[p] \notin LoginPcs
            => /\ pc'[p] = "loginAwait"
               /\ attemptRes'[loc[p].att] \in {"true", "false"}
               /\ loc'[p].threw => attemptRes'[loc[p].att] = "false" /\ ~isLoggedIn'
               /\ pc[p] # "wait2" => loc'[p].threw]_vars
\* An attempt has failed with an exception (the launch failed) while another
\* login() had joined it.
C5_Witness ==
    \E p, q \in Procs :
        /\ pc[p] = "loginAwait" /\ loc[p].threw /\ attemptRes[loc[p].att] = "false"
        /\ pc[q] = "join" /\ loc[q].att = loc[p].att
        /\ ~isLoggedIn

\* C6: an attempt that reaches the URL check without an exception produces,
\* as its result and as isLoggedIn, whether the page's URL lies in the
\* authenticated area; a timeout of the navigation wait does not change that.
C6_UrlDecides ==
    [][\A p \in Procs :
        pc[p] = "wait2" /\ pc'[p] = "loginAwait" /\ ~loc'[p].threw
        => /\ page # 0
           /\ isLoggedIn' = (pageUrl[page] \in AuthenticatedUrls)
           /\ attemptRes'[loc[p].att] = (IF pageUrl[page] \in AuthenticatedUrls
                                         THEN "true" ELSE "false")]_vars
\* An attempt whose navigation wait timed out has succeeded.
C6_Witness ==
    \E p \in Procs :
        /\ pc[p] = "loginAwait" /\ ~loc[p].threw /\ loc[p].navTimeout
        /\ attemptRes[loc[p].att] = "true"
        /\ isLoggedIn

\* C7: when close() completes, browser and page are null and isLoggedIn is
\* false; a close() on a session without browser (so a second close() after
\* the first) returns at once, changes nothing and does no browser operation.
C7_CloseResets ==
    /\ [][\A p \in Procs :
            pc[p] = "closing" /\ pc'[p] = "idle" /\ last'.ret = "void"
            => browser' = 0 /\ page' = 0 /\ ~isLoggedIn']_vars
    /\ [][browser = 0 /\ IsCall("close") => ReturnsAtOnce("void")]_vars
\* A close() has awaited the browser's close and returned; no browser is left.
C7_Witness ==
    /\ last.op = "close" /\ last.how = "awaited" /\ last.ret = "void"
    /\ browser = 0 /\ page = 0 /\ ~isLoggedIn /\ live = {}

\* C8: at most one browser is launched and not closed, under every
\* interleaving of init(), login() and close().
C8_OneLiveBrowser == Cardinality(live) <= 1

\* C9: a fetch called while isLoggedIn is false throws 'Not logged in to
\* Schulmanager' at once: no navigation, no extraction, nothing changed.
C9_FetchNeedsLogin ==
    [][\A o \in FetchOps :
        ~isLoggedIn /\ IsCall(o)
        => ReturnsAtOnce("NotLoggedIn") /\ last'.op = o /\ last'.week = NoDate]_vars
\* A fetch was refused on a session that has a page but is not logged in.
C9_Witness ==
    /\ last.op \in FetchOps /\ last.ret = "NotLoggedIn"
    /\ ~isLoggedIn /\ page # 0

\* C10: for every anchor date d, getMondayOfWeek(d) is a Monday, lies at most
\* 6 days before d (in the calendar the process runs in), and applying
\* getMondayOfWeek to its result gives the same date.
C10_MondayOfWeek ==
    mPc = "again"
    => /\ WeekdayOf(DaysFromCivil(mResult[1], mResult[2], mResult[3])) = 1
       /\ (LocalHours(mDate, tz) \div 24)
            - DaysFromCivil(mResult[1], mResult[2], mResult[3]) \in 0..6
       /\ mAgain = mResult

\* The step is a call of the cache operation o on key (or prefix) k that
\* returns without suspending.
CacheCallReturns(o, k) ==
    /\ calls' = calls + 1
    /\ cPc' = cPc
    /\ cLast'.op = o
    /\ cLast'.key = k
\* The step is a call of getOrSet on key k.
IsGetOrSet(k) ==
    \/ CacheCallReturns("getOrSet", k)
    \/ /\ calls' = calls + 1
       /\ \E p \in CacheCallers : cPc[p].pc = "idle" /\ cPc'[p].pc = "compute" /\ cPc'[p].key = k
\* The ttl in force for a ttl argument (omitted: the timetable default).
TtlInForce(ttl) == IF ttl = 0 THEN TimetableTtl ELSE ttl
\* Key k begins with prefix pre.
HasPrefix(k, pre) == \E n \in 0..Len(k) : SubSeq(k, 1, n) = pre

\* C11: a getOrSet on a key with a live entry returns the stored value and
\* does not invoke fn; so a getOrSet that follows a completed getOrSet on the
\* same key, with no call and no expiry in between, returns the same value
\* and fn has been invoked once in total.
C11_GetOrSetHit ==
    /\ [][\A k \in CacheKeys :
            LiveEntry(k) /\ IsGetOrSet(k)
            => /\ CacheCallReturns("getOrSet", k)
               /\ cLast'.ret = cache[k].v
               /\ ~cLast'.computed
               /\ fnCalls' = fnCalls
               /\ cache' = cache]_vars
    /\ [][\A k \in CacheKeys :
            /\ cLast.op = "getOrSet" /\ cLast.key = k
            /\ cLast.computed /\ cLast.ret # "threw"
            /\ clock <= cLast.at + TtlInForce(cLast.ttl)
            /\ IsGetOrSet(k)
            => /\ CacheCallReturns("getOrSet", k)
               /\ cLast'.ret = cLast.ret
               /\ fnCalls' = fnCalls]_vars
\* Two getOrSet calls have been made one after the other; fn was invoked once
\* and the second call returned what fn had computed.
C11_Witness ==
    /\ cLast.op = "getOrSet" /\ ~cLast.computed /\ cLast.ret = "v3"
    /\ calls = 2 /\ fnCalls = 1

\* C12: a get (has) that directly follows set(k, v, ttl) returns v (true); a
\* get that follows it after more than ttl seconds returns undefined; a get on
\* a key without entry (never set, deleted, flushed) or with an expired entry
\* returns undefined; get never raises.
C12_RoundTrip ==
    /\ [][\A k \in CacheKeys :
            cLast.op = "set" /\ cLast.key = k /\ CacheCallReturns("get", k)
            => /\ clock = cLast.at => cLast'.ret = cLast.val
               /\ clock > cLast.at + TtlInForce(cLast.ttl) => cLast'.ret = Undefined]_vars
    /\ [][\A k \in CacheKeys :
            cLast.op = "set" /\ cLast.key = k /\ clock = cLast.at
            /\ CacheCallReturns("has", k)
            => cLast'.ret = "true"]_vars
    /\ [][\A k \in CacheKeys :
            /\ \/ cache[k] = NoEntry
               \/ cache[k].t # 0 /\ cache[k].t < clock
               \/ cLast.op = "del" /\ cLast.key = k
               \/ cLast.op = "flush"
            /\ CacheCallReturns("get", k)
            => cLast'.ret = Undefined]_vars
    /\ [](cLast.op = "get" => cLast.ret \in CacheValues \cup FnValues \cup {Undefined})
\* A get has found the entry of its key expired and returned undefined.
C12_Witness ==
    /\ cLast.op = "get" /\ cLast.ret = Undefined
    /\ cLast.at > SubstitutionsTtl
    /\ calls = 2
    /\ \E k \in CacheKeys : k # cLast.key /\ LiveEntry(k)

\* C13: delByPrefix(p) leaves no entry whose key starts with p, and leaves
\* every other entry as it was, value and expiry.
C13_DelByPrefixFrame ==
    [][\A pre \in Prefixes :
        CacheCallReturns("delByPrefix", pre)
        => \A k \in CacheKeys :
              cache'[k] = IF HasPrefix(k, pre) THEN NoEntry ELSE cache[k]]_vars
\* delByPrefix("timetable:") has deleted the timetable entry and left the
\* substitutions entry.
C13_Witness ==
    /\ cLast.op = "delByPrefix" /\ cLast.key = <<"timetable:">> /\ cLast.count = 1
    /\ cache[<<"timetable:", "default:", "2025-01-01">>] = NoEntry
    /\ cache[<<"substitutions:", "default:", "2025-01-01">>] # NoEntry

\* The clock time `minutes` after midnight, written hh:mm.
ClockText(minutes) ==
    LET hh == minutes \div 60
        mm == minutes % 60
        two(n) == <<DigitChars[(n \div 10) + 1], DigitChars[(n % 10) + 1]>>
    IN  two(hh) \o <<":">> \o two(mm)

\* C15: for every hour index h >= 1 the derived start time is 08:00 plus
\* 45 * (h - 1) minutes and the end time is 45 minutes later, so the end of
\* lesson h is the start of lesson h + 1; h = 1 gives 08:00-08:45, h = 2
\* gives 08:45-09:30, h = 5 gives 11:00-11:45 and h = 8 gives 13:15-14:00.
C15_TimeDerivation ==
    /\ tPc \in {"derived", "next"}
       => /\ tTimes.startMinute \in 0..59 /\ tTimes.endMinute \in 0..59
          /\ tTimes.startHour * 60 + tTimes.startMinute = 480 + 45 * (tHour - 1)
          /\ tTimes.endHour * 60 + tTimes.endMinute = 480 + 45 * tHour
          /\ tTimes.startTime = ClockText(480 + 45 * (tHour - 1))
          /\ tTimes.endTime = ClockText(480 + 45 * tHour)
          /\ tHour = 1 => /\ tTimes.startTime = <<"0", "8", ":", "0", "0">>
                          /\ tTimes.endTime = <<"0", "8", ":", "4", "5">>
          /\ tHour = 2 => /\ tTimes.startTime = <<"0", "8", ":", "4", "5">>
                          /\ tTimes.endTime = <<"0", "9", ":", "3", "0">>
          /\ tHour = 5 => /\ tTimes.startTime = <<"1", "1", ":", "0", "0">>
                          /\ tTimes.endTime = <<"1", "1", ":", "4", "5">>
          /\ tHour = 8 => /\ tTimes.startTime = <<"1", "3", ":", "1", "5">>
                          /\ tTimes.endTime = <<"1", "4", ":", "0", "0">>
    /\ tPc = "next" => tNext.startTime = tTimes.endTime
\* The times of lesson 8 and of the lesson after it have been derived.
C15_Witness ==
    /\ tPc = "next" /\ tHour = 8
    /\ tTimes.startTime = <<"1", "3", ":", "1", "5">>
    /\ tNext.startTime = <<"1", "4", ":", "0", "0">>

\* A text with something other than blanks in it.
NonBlank(t) == \E i \in 1..Len(t) : t[i] # " "
\* The rows of the day's column that hold a lesson with a subject.
SubjectRows ==
    {i \in 1..Len(nCells) :
        nCells[i].lesson /\ nCells[i].left # Absent /\ NonBlank(nCells[i].left)}
\* The entries of a sequence are in the order of their lesson numbers.
InLessonOrder(q) == \A i, j \in 1..Len(q) : i < j => q[i].lessonNumber < q[j].lessonNumber
\* The lesson a substitution was made from.
LessonOf(sub) == CHOOSE l \in {nLessons[i] : i \in 1..Len(nLessons)} :
                    l.lessonNumber = sub.lessonNumber
\* The normalisation has produced the lessons, the substitutions.
HasLessons == nPc \in {"lessons", "subs", "cancelled"}
HasSubs == nPc = "subs"

\* C14: the lessons of a day are one Lesson per slot with a non-empty
\* subject, in the order of the slots, and none for a slot with an empty
\* subject: their number is the number of slots with non-empty subject.
C14_LessonCount ==
    HasLessons
    => /\ Len(nLessons) = Cardinality(SubjectRows)
       /\ {nLessons[j].lessonNumber : j \in 1..Len(nLessons)} = SubjectRows
       /\ InLessonOrder(nLessons)
       /\ \A j \in 1..Len(nLessons) :
            /\ NonBlank(nLessons[j].subject)
            /\ \E n \in 1..Len(nCells[nLessons[j].lessonNumber].left) :
                  nCells[nLessons[j].lessonNumber].left[n] = nLessons[j].subject[1]
\* Of two slots the first, whose subject is blank, was dropped and the second
\* became the only lesson.
C14_Witness ==
    /\ nPc = "lessons"
    /\ Len(nCells) = 2 /\ nCells[1].lesson /\ nCells[2].lesson
    /\ Len(nLessons) = 1 /\ nLessons[1].lessonNumber = 2

\* C16: the substitutions are one per Lesson with isCancelled or
\* isSubstitution set, in lesson order, and none for a Lesson with neither.
C16_SubstitutionCount ==
    HasSubs
    => /\ {nSubs[j].lessonNumber : j \in 1..Len(nSubs)}
            = {nLessons[i].lessonNumber : i \in {i \in 1..Len(nLessons) :
                    nLessons[i].isCancelled \/ nLessons[i].isSubstitution}}
       /\ Len(nSubs) = Cardinality({i \in 1..Len(nLessons) :
                    nLessons[i].isCancelled \/ nLessons[i].isSubstitution})
       /\ InLessonOrder(nSubs)
\* Of two lessons the first, unchanged, gave no substitution and the second,
\* cancelled only, gave one.
C16_Witness ==
    /\ nPc = "subs"
    /\ Len(nLessons) = 2 /\ Len(nSubs) = 1
    /\ nSubs[1].lessonNumber = 2
    /\ nLessons[2].isCancelled /\ ~nLessons[2].isSubstitution

\* C17: a Lesson with isCancelled set yields a Substitution of type
\* CANCELLATION with isCancelled set, whatever its other fields.
C17_CancellationPrecedence ==
    HasSubs
    => \A j \in 1..Len(nSubs) :
          LessonOf(nSubs[j]).isCancelled
          => nSubs[j].type = "cancellation" /\ nSubs[j].isCancelled
\* A lesson that is cancelled and marked as a substitution, with a teacher,
\* has given a cancellation.
C17_Witness ==
    /\ nPc = "subs"
    /\ \E j \in 1..Len(nSubs) :
          /\ nSubs[j].type = "cancellation"
          /\ LessonOf(nSubs[j]).isCancelled /\ LessonOf(nSubs[j]).isSubstitution
          /\ LessonOf(nSubs[j]).teacher = <<"Mue">>

\* C18: the Substitution of a cancelled Lesson has originalTeacher
\* 'Unbekannt' and neither substituteTeacher nor substituteSubject; that of a
\* changed Lesson that is not cancelled has originalTeacher,
\* substituteTeacher and substituteSubject copied from the Lesson.
C18_TeacherFields ==
    HasSubs
    => \A j \in 1..Len(nSubs) :
          IF LessonOf(nSubs[j]).isCancelled
          THEN /\ nSubs[j].originalTeacher = <<"Unbekannt">>
               /\ nSubs[j].substituteTeacher = Absent
               /\ nSubs[j].substituteSubject = Absent
          ELSE /\ nSubs[j].originalTeacher = LessonOf(nSubs[j]).teacher
               /\ nSubs[j].substituteTeacher = LessonOf(nSubs[j]).teacher
               /\ nSubs[j].substituteSubject = LessonOf(nSubs[j]).subject
\* A cancelled lesson and a changed lesson have each given a substitution.
C18_Witness ==
    /\ nPc = "subs" /\ Len(nSubs) = 2
    /\ nSubs[1].originalTeacher = <<"Unbekannt">> /\ nSubs[1].substituteTeacher = Absent
    /\ nSubs[2].originalTeacher = <<"Mue">> /\ nSubs[2].substituteTeacher = <<"Mue">>

\* C19: every Substitution carries a note: 'Stunde faellt aus' when its
\* Lesson is cancelled, 'Vertretung' otherwise.
C19_NoteSentinel ==
    HasSubs
    => \A j \in 1..Len(nSubs) :
          nSubs[j].note = IF LessonOf(nSubs[j]).isCancelled
                          THEN <<"Stunde ", "faellt aus">> ELSE <<"Vertretung">>

\* C20: getCancelledClasses returns the Lessons of getTimetable whose
\* isCancelled is set, all of them, unmodified and in the same order.
C20_CancelledOnly ==
    nPc = "cancelled"
    => /\ {nCancelled[j] : j \in 1..Len(nCancelled)}
            = {l \in {nLessons[i] : i \in 1..Len(nLessons)} : l.isCancelled}
       /\ Len(nCancelled) = Cardinality({i \in 1..Len(nLessons) : nLessons[i].isCancelled})
       /\ InLessonOrder(nCancelled)
\* Of two lessons the first, a substitution, was left out and the second,
\* cancelled, was returned.
C20_Witness ==
    /\ nPc = "cancelled"
    /\ Len(nLessons) = 2 /\ nLessons[1].isSubstitution /\ ~nLessons[1].isCancelled
    /\ nCancelled = <<nLessons[2]>>

\* ---- the week fetch on the shared page
\* Caller p's fetch returns a schedule in this step.
FetchReturnsOk(p) == pc[p] = "wsEval" /\ pc'[p] = "idle" /\ last'.ret = "ok"

\* C27: two week fetches share the one page handle: the schedule a fetch
\* returns is the one the page shows when its extraction runs, whichever call
\* navigated the page last, so a fetch whose page another fetch has navigated
\* to a different week in between returns the schedule of that other week.
C27_SharedPageRace ==
    [][\A p \in Procs :
          FetchReturnsOk(p)
          => /\ last'.week = pageUrl[loc[p].opPage].start
             /\ last'.date = loc[p].date
             /\ last'.op = op[p]]_vars

\* A getWeekSchedule(date) call has returned the schedule of a week other than
\* the week of its own date.
C27_Witness ==
    /\ last.op = "getWeekSchedule"
    /\ last.ret = "ok"
    /\ last.week # NoDate
    /\ last.week # getMondayOfWeek(last.date, tz)

\* C28: within one week fetch the awaits follow each other in the order
\* navigation, settle wait, element wait, extraction; the extraction starts
\* only when the navigation and both waits of that same fetch have resolved,
\* and a fetch returns a schedule only from its extraction.
C28_FetchOrder ==
    [][\A p \in Procs :
          /\ (pc'[p] = "wsGoto" /\ pc[p] # "wsGoto") => pc[p] = "idle"
          /\ (pc'[p] = "wsSettle" /\ pc[p] # "wsSettle")
                => pc[p] = "wsGoto" /\ loc'[p].navigated
          /\ (pc'[p] = "wsSelector" /\ pc[p] # "wsSelector")
                => pc[p] = "wsSettle" /\ loc'[p].navigated /\ loc'[p].settled
          /\ (pc'[p] = "wsEval" /\ pc[p] # "wsEval")
                => /\ pc[p] = "wsSelector"
                   /\ loc'[p].navigated /\ loc'[p].settled /\ loc'[p].table
          /\ (op[p] \in FetchOps /\ pc'[p] = "idle" /\ last'.ret = "ok")
                => pc[p] = "wsEval"]_vars

\* A fetch has gone through all four awaits and returned a schedule.
C28_Witness ==
    /\ last.op \in FetchOps
    /\ last.ret = "ok"
    /\ last.how = "awaited"
    /\ last.week = getMondayOfWeek(Now, tz)

\* C29: a login attempt whose navigation wait timed out goes on to the URL
\* check, which alone decides its result; a fetch whose element wait fails
\* never extracts: it ends with the error and returns no schedule, whichever of
\* the four fetch operations was called.
C29_TimeoutAsymmetry ==
    [][\A p \in Procs :
          /\ loc[p].navTimeout => pc[p] \in {"wait2", "loginAwait"}
          /\ (pc[p] = "wait2" /\ loc[p].navTimeout /\ pc'[p] = "loginAwait"
                /\ ~loc'[p].threw)
                => /\ isLoggedIn' = UrlCheck(pageUrl[page])
                   /\ attemptRes'[loc[p].att] =
                        (IF UrlCheck(pageUrl[page]) THEN "true" ELSE "false")
          /\ pc[p] = "wsEval" => loc[p].table
          /\ (pc[p] = "wsSelector" /\ pc'[p] = "idle")
                => /\ op[p] \in FetchOps
                   /\ last' = [op |-> op[p], ret |-> "error", week |-> NoDate,
                               date |-> loc[p].date, how |-> "awaited"]]_vars

\* A login attempt succeeded although its navigation wait had timed out, and a
\* fetch made meanwhile has ended with an error after suspending.
C29_Witness ==
    /\ \E p \in Procs :
          /\ pc[p] = "loginAwait"
          /\ loc[p].navTimeout /\ ~loc[p].threw
          /\ attemptRes[loc[p].att] = "true"
    /\ last.op \in FetchOps
    /\ last.ret = "error"
    /\ last.how = "awaited"

\* ---- overlapping getOrSet calls
\* A getOrSet on key k is suspended at await fn(): it has not stored yet.
Computing(k) == \E q \in CacheCallers : cPc[q].pc = "compute" /\ cPc[q].key = k

\* C26: getOrSet has no stampede protection: a getOrSet that starts on a key
\* while another getOrSet on that key still awaits its compute function, and
\* finds no live entry, invokes its own compute function as well; so two
\* overlapping calls on one key can both compute.
C26_NoStampedeProtection ==
    [][\A k \in CacheKeys :
          IsGetOrSet(k) /\ Computing(k) /\ ~LiveEntry(k)
          => /\ fnCalls' = fnCalls + 1
             /\ \E p \in CacheCallers :
                   /\ cPc[p].pc = "idle"
                   /\ cPc'[p].pc = "compute" /\ cPc'[p].key = k
             /\ cLast' = cLast]_vars

\* Two getOrSet calls on the same key are both suspended at await fn(): fn was
\* invoked twice for that key, with no entry stored and no time passed.
C26_Witness ==
    /\ \A p \in CacheCallers : cPc[p].pc = "compute"
    /\ \A p, q \in CacheCallers : cPc[p].key = cPc[q].key
    /\ fnCalls = 2
    /\ clock = 0

\* ---- slot classification
\* The marker carries one of the classes substitution, changed and cancelled.
DeviationClass(m) == m.classes \cap {"substitution", "changed", "cancelled"} # {}
\* The marker contains a warning or danger badge: an element of class
\* text-warning, text-danger or badge-warning.
WarningBadge(m) == m.badge \in {"text-warning", "text-danger", "badge-warning"}
\* The marker's text says that the lesson is cancelled.
SaysCancelled(m) ==
    \/ Includes(TextContent(m), <<"faellt aus">>)
    \/ Includes(TextContent(m), <<"entfaellt">>)

CalendarDay(civ) == WeekdayOf(DaysFromCivil(civ[1], civ[2], civ[3]))
Abbreviations == << <<"Mo">>, <<"Di">>, <<"Mi">>, <<"Do">>, <<"Fr">> >>
\* The columns whose key contains the abbreviation of the date's weekday;
\* none on a Saturday or a Sunday.
ColumnsOf(civ) ==
    IF CalendarDay(civ) \in 1..5
    THEN {i \in 1..Len(wSchedule) : Includes(wSchedule[i].key, Abbreviations[CalendarDay(civ)])}
    ELSE {}
FirstColumnOf(civ) == CHOOSE i \in ColumnsOf(civ) : \A j \in ColumnsOf(civ) : i <= j

\* C21: the Lessons of a date are those of the first key of the week
\* schedule that contains the abbreviation of the date's weekday, and the
\* result is empty when no key matches, as on every Saturday and Sunday.
C21_DateToColumn ==
    wPc = "lessons" =>
        wLessons = IF ColumnsOf(wDate) = {} THEN <<>>
                   ELSE toLessons(wSchedule[FirstColumnOf(wDate)].slots, DateText(wDate))

\* C22: for the table with the headers Stunde, Mo .. Fr and one row with the
\* marker Mathe, Schmidt, 101 under Mo, the week schedule has exactly one
\* slot, under Mo, with hour 1 and both flags false, and the timetable of a
\* Monday date is one Lesson from 08:00 to 08:45.
ScenarioTable ==
    [headers |-> PlainHeaders,
     rows |-> << <<MarkerCell, NoLessonCell, NoLessonCell, NoLessonCell, NoLessonCell>> >>]
ScenarioSlot ==
    [hour |-> 1, class |-> <<"Mathe">>, teacher |-> <<"Schmidt">>, room |-> <<"101">>,
     isSubstitution |-> FALSE, isCancelled |-> FALSE]
C22_EndToEnd ==
    (wTable = ScenarioTable /\ wPc # "table") =>
        /\ wSchedule = << [key |-> <<"Mo">>, slots |-> <<ScenarioSlot>>],
                          [key |-> <<"Di">>, slots |-> <<>>],
                          [key |-> <<"Mi">>, slots |-> <<>>],
                          [key |-> <<"Do">>, slots |-> <<>>],
                          [key |-> <<"Fr">>, slots |-> <<>>] >>
        /\ (wPc = "lessons" /\ CalendarDay(wDate) = 1) =>
              /\ Len(wLessons) = 1
              /\ wLessons[1].startTime = <<"0", "8", ":", "0", "0">>
              /\ wLessons[1].endTime = <<"0", "8", ":", "4", "5">>

C23_TtlByCategory ==
    \A e \in hStore :
        /\ e.by \in SubstitutionHandlers \cup CancelledHandlers => e.ttl = SubstitutionsTtl
        /\ e.by \in TimetableHandlers => e.ttl = TimetableTtl

\* C24: a by-date handler answers a date parameter that does not match
\* YYYY-MM-DD with a 400 error envelope; for that request it reads and
\* writes no cache entry, calls no login and no fetcher.
C24_DateValidation ==
    (hReq.handler \in ByDateHandlers /\ ~DateRegex(hReq.date)) =>
        /\ hPc = "idle"
        /\ hRes.status = 400
        /\ ~hRes.success
        /\ hRes.code # <<>>
        /\ hLog = NoEffects
        /\ \A e \in hStore : e.key # KeyOf(hReq.handler, hReq.date)
C24_Witness ==
    /\ hReq.handler \in ByDateHandlers
    /\ ~DateRegex(hReq.date)
    /\ Len(hReq.date) = 10
    /\ hRes.status = 400
    /\ hStore # {}

\* A close() call returns normally in this step.
CloseStep ==
    \E p \in Procs : pc[p] = "closing" /\ pc'[p] = "idle" /\ last'.op = "close"
                      /\ last'.ret = "void"

\* C37: isLoggedIn goes from true to false only in the step in which close()
\* returns; no login call, no login attempt that completes or fails and no
\* failed fetch resets it.
C37_OnlyCloseResets == [][(isLoggedIn /\ ~isLoggedIn') => CloseStep]_vars
C37_Witness ==
    /\ last.op \in FetchOps
    /\ last.ret = "error"
    /\ last.how = "awaited"
    /\ isLoggedIn

\* C38: whenever isLoggedIn is true the page handle is not null.
C38_LoggedInHasPage == isLoggedIn => page # 0
C38_Witness ==
    /\ isLoggedIn
    /\ page # 0
    /\ \E p \in Procs : pc[p] = "closing"

\* C40: under fair scheduling every login() call, initiating or joining,
\* eventually returns, what it returns is a boolean, and the in-flight
\* marker is eventually null again.
C40_LoginLiveness ==
    /\ \A p \in Procs : (op[p] = "login") ~> (op[p] = "none")
    /\ (loginPromise # 0) ~> (loginPromise = 0)
    /\ [](last.op = "login" => last.ret \in {"true", "false"})
C40_Witness ==
    /\ last.op = "login"
    /\ last.how = "joined"
    /\ last.ret \in {"true", "false"}
    /\ loginPromise = 0

\* C36: when the compute function of a getOrSet throws, the error is passed
\* on to the caller and the cache is left as it is; a getOrSet that finds no
\* live entry invokes its compute function, and a cached value that is
\* served is never a failure.
C36_FailuresNotCached ==
    [][/\ \A p \in CacheCallers :
            (cPc[p].pc = "compute" /\ cPc'[p].pc = "idle" /\ cLast'.ret = "threw")
                => (cache' = cache /\ cLast'.computed /\ cLast'.key = cPc[p].key)
       /\ \A p \in CacheCallers :
            (cPc[p].pc = "idle" /\ cPc'[p].pc = "compute")
                => (fnCalls' = fnCalls + 1 /\ ~LiveEntry(cPc'[p].key))
       /\ (calls' = calls + 1 /\ cLast'.op = "getOrSet" /\ cPc' = cPc)
                => (cLast'.ret # "threw" /\ ~cLast'.computed)]_vars
C36_Witness ==
    /\ cLast.op = "getOrSet"
    /\ cLast.ret = "threw"
    /\ cache[cLast.key] = NoEntry
    /\ fnCalls = 2
    /\ \E p \in CacheCallers : cPc[p].pc = "compute" /\ cPc[p].key = cLast.key

\* The slot the extractor has pushed for row i of the column, if any.
SlotsOfRow(i) == {k \in 1..Len(nDay) : nDay[k].hour = i}
\* A part of a marker that is missing, or empty once trimmed.
NoText(part) == part = Absent \/ Trim(part) = <<>>

\* C31: a cell without marker and a marker whose subject part is missing or
\* empty yield no slot; every other marker yields its slot, with the empty
\* text for a teacher or room part that is missing, whatever the other cells
\* of the column are.
C31_GracefulDegradation ==
    nPc # "cells" =>
        \A i \in 1..Len(nCells) :
            /\ (~nCells[i].lesson \/ NoText(nCells[i].left)) => SlotsOfRow(i) = {}
            /\ (nCells[i].lesson /\ ~NoText(nCells[i].left)) =>
                  /\ Cardinality(SlotsOfRow(i)) = 1
                  /\ \A k \in SlotsOfRow(i) :
                        /\ nDay[k].class = Trim(nCells[i].left)
                        /\ nCells[i].right = Absent => nDay[k].teacher = <<>>
                        /\ nCells[i].bottom = Absent => nDay[k].room = <<>>
                        /\ nCells[i].right # Absent => nDay[k].teacher = Trim(nCells[i].right)
C31_Witness ==
    /\ nPc # "cells"
    /\ \E i, j \in 1..Len(nCells) :
          /\ nCells[i].lesson
          /\ nCells[i].left = Absent
          /\ nCells[j].lesson
          /\ nCells[j].right = Absent
          /\ nCells[j].bottom = Absent
          /\ SlotsOfRow(j) # {}

\* The types of the Substitutions getSubstitutions has returned.
TypesProduced == {nSubs[i].type : i \in 1..Len(nSubs)}

\* C33: a Substitution made by getSubstitutions has the type cancellation
\* when it is cancelled and the type substitution otherwise; no other type
\* is produced.
C33_ReachableTypes ==
    HasSubs =>
        /\ TypesProduced \subseteq {"cancellation", "substitution"}
        /\ \A i \in 1..Len(nSubs) : (nSubs[i].type = "cancellation") <=> nSubs[i].isCancelled
C33_Witness ==
    /\ HasSubs
    /\ TypesProduced = {"cancellation", "substitution"}
    /\ \E i \in 1..Len(nSubs) :
          /\ nSubs[i].type = "substitution"
          /\ nSubs[i].substituteTeacher = <<"N/A">>
          /\ nSubs[i].room = <<"N/A">>

\* The fetchers that take a date string.
ByDateOps == {"getTimetable", "getSubstitutions", "getCancelledClasses"}

\* C34: the schedule a by-date fetch for the date d returns is that of the
\* week whose Monday is the Monday of d.
C34_AnchoredAtDate ==
    (last.op \in ByDateOps /\ last.ret = "ok") => last.week = getMondayOfWeek(last.date, tz)

\* The awaits of a call in the order in which the code reaches them: those of
\* a login (init included), of a close, of a fetch.
LoginSteps ==
    <<"launch", "newPage", "initDone", "goto", "wait1", "email1", "email2", "email3",
      "typeEmail", "pwd", "typePwd", "submit", "click", "wait2", "loginAwait", "join">>
FetchSteps == <<"closing", "wsGoto", "wsSettle", "wsSelector", "wsEval">>
StepRank(step) ==
    IF \E i \in 1..Len(LoginSteps) : LoginSteps[i] = step
    THEN CHOOSE i \in 1..Len(LoginSteps) : LoginSteps[i] = step
    ELSE CHOOSE i \in 1..Len(FetchSteps) : FetchSteps[i] = step
\* The login attempts that start in this step.
AttemptsStarted == {a \in AttemptIds : attemptRes[a] # "pending" /\ attemptRes'[a] = "pending"}

\* C32: a call only moves forward through its awaits, so it runs its login
\* sequence or its week fetch once at most; a login attempt starts only in
\* the step of a login() call, one per call at most, and a caller whose call
\* has ended does nothing until a new call is made.
C32_NoRetry ==
    [][/\ \A p \in Procs :
            /\ (pc[p] # "idle" /\ pc'[p] # "idle" /\ pc'[p] # pc[p])
                  => (op'[p] = op[p] /\ StepRank(pc'[p]) > StepRank(pc[p]))
            /\ (pc[p] = "idle" /\ pc'[p] # "idle") => calls' = calls + 1
       /\ AttemptsStarted # {} => (calls' = calls + 1 /\ last' = last)
       /\ Cardinality(AttemptsStarted) <= 1]_vars
C32_Witness ==
    /\ last.op = "login"
    /\ last.ret = "false"
    /\ last.how = "awaited"
    /\ loginPromise = 0
    /\ ~isLoggedIn
    /\ \A p \in Procs : pc[p] = "idle"
    /\ calls = MaxCalls

\* ---------------------------------------------------------------------
\* Requests answered from the cache
\* ---------------------------------------------------------------------

\* The key a request looks up.
RequestKey == KeyOf(hReq.handler, hReq.date)
\* A request arrives whose key has a live entry in the cache.
ArrivesAtLiveEntry ==
    /\ hCount' = hCount + 1
    /\ ~(hReq'.handler \in ByDateHandlers /\ ~DateRegex(hReq'.date))
    /\ \E e \in hStore :
          /\ e.key = KeyOf(hReq'.handler, hReq'.date)
          /\ (hNow - e.at) * 3600 <= e.ttl

\* C39: a request whose key has a live cache entry is answered from the
\* entry: it is answered at once with status 200, no login is attempted, the
\* week page is not fetched, nothing is stored, and the session state is left
\* as it is, whether the session is logged in or not; the session is logged
\* in by a handler only in the compute function of a cache miss.
C39_HitTouchesNoSession ==
    [][/\ ArrivesAtLiveEntry
          => /\ hPc' = "idle"
             /\ hRes'.status = 200
             /\ hLog' = [NoEffects EXCEPT !.gets = 1]
             /\ hStore' = hStore
             /\ isLoggedIn' = isLoggedIn
             /\ <<browser, page, loginPromise>>' = <<browser, page, loginPromise>>
       /\ (hLog'.logins > hLog.logins \/ hPc' = "login")
              => ~(\E e \in hStore :
                       /\ e.key = KeyOf(hReq'.handler, hReq'.date)
                       /\ (hNow - e.at) * 3600 <= e.ttl)
       /\ (~isLoggedIn /\ isLoggedIn') => (hPc = "login" /\ hLog.sets = 0)]_vars
\* A request was answered from the cache while the session was closed.
C39_Witness ==
    /\ hPc = "idle"
    /\ hRes.status = 200
    /\ hLog = [NoEffects EXCEPT !.gets = 1]
    /\ ~isLoggedIn
    /\ \E e \in hStore : e.key = RequestKey

\* The calendar dates a well-formed date parameter can name.
ParamDays == {<<2025, 1, 6>>}
\* The instant (UTC midnight) of the date a request is about.
DenotedInstant(h, date) ==
    CASE h \in {"getTodayTimetable", "getCancelledToday", "getTodaySubstitutions"}
           -> ParseISODate(ToISODate(hNow))
      [] h \in {"getTomorrowTimetable", "getCancelledTomorrow", "getTomorrowSubstitutions"}
           -> ParseISODate(ToISODate(SetDate(hNow, tz, GetDate(hNow, tz) + 1)))
      [] h \in ByDateHandlers
           -> ParseISODate(CHOOSE civ \in ParamDays : DateText(civ) = date)
      [] h \in {"getWeekTimetable", "getWeekCancelled"} -> hNow
\* The request names a date.
DenotesDate(h, date) ==
    h \in ByDateHandlers => \E civ \in ParamDays : DateText(civ) = date

\* C35: a request answered from the cache is answered with data of the week
\* the request is about: the week of today, of tomorrow or of the date
\* parameter, and the current week for the week handlers.
C35_HitServesOwnWeek ==
    [][(ArrivesAtLiveEntry /\ DenotesDate(hReq'.handler, hReq'.date))
          => hRes'.week = getMondayOfWeek(DenotedInstant(hReq'.handler, hReq'.date), tz)]_vars
\* The same for the week timetable handler alone, whose key is
\* 'timetable:week:current'.
WeekTimetableHitServesCurrentWeek ==
    [][(ArrivesAtLiveEntry /\ hReq'.handler = "getWeekTimetable")
          => hRes'.week = getMondayOfWeek(hNow, tz)]_vars
====
